---- MODULE Spec2Model ----
(***************************************************************************)
(* Splay tree (splay_tree::SplayTree and the set / multiset adapters).     *)
(*                                                                         *)
(* The node heap is an arena of node records addressed by node ids: a     *)
(* pointer is a node id and nullptr is Null.  Two tree objects live over   *)
(* the same heap, so that split and merge hand nodes from one to the      *)
(* other.  The member functions are operators on a record S that holds    *)
(* what a call can read and write: the heap (nodes, allocated), the        *)
(* receiver (tree), the other tree object (rhs), and what the call         *)
(* returns (ret, inserted) or how it ends (outcome).                       *)
(***************************************************************************)
EXTENDS Integers, Sequences, FiniteSets, TLC

\* ---- bounds of the model ----
MaxNodes == 6
MaxElements == 4
MaxKey == 3
MaxStressKey == 4

Null == 0
Nodes == 1..MaxNodes
Keys == 1..MaxKey
StressKeys == 1..MaxStressKey
Trees == {1, 2}

VARIABLES
    nodes,      \* the heap: node id -> SplayTreeNode (value, parent, leftChild, rightChild)
    allocated,  \* node ids currently allocated (constructed and not destroyed)
    tree,       \* tree object -> (root_, leftMostNode_, rightMostNode_, numberOfNodes_)
    cmp,        \* the Compare template argument: "less" or "greater"
    call,       \* the call that was made last and what it returned
    stl,        \* the reference std::set / std::multiset of the stress tests and its last result
    held        \* key -> node of the iterator the caller keeps from the insert that added the key

vars == <<nodes, allocated, tree, cmp, call, stl, held>>

\* A node as left by the SplayTreeNode constructor: no links.
SplayTreeNode(v) == [value |-> v, parent |-> Null, leftChild |-> Null, rightChild |-> Null]

\* Storage that holds no node (released, or never allocated).
NoNode == [value |-> 0, parent |-> Null, leftChild |-> Null, rightChild |-> Null]

\* A default-constructed tree object.
EmptyTree == [root_ |-> Null, leftMostNode_ |-> Null, rightMostNode_ |-> Null, numberOfNodes_ |-> 0]

\* Compare: std::less or std::greater over the keys.
comparator_(a, b) == IF cmp = "less" THEN a < b ELSE a > b

keysAreEqual(lhs, rhs) == ~comparator_(lhs, rhs) /\ ~comparator_(rhs, lhs)

\* ---- node storage ----

\* allocate(1) + construct: the allocator hands out the lowest free address.
\* ret is the new node.
createNode(S, v) ==
    LET newNode == CHOOSE n \in Nodes \ S.allocated : \A m \in Nodes \ S.allocated : n <= m
    IN  [S EXCEPT !.nodes[newNode] = SplayTreeNode(v),
                  !.allocated = @ \cup {newNode},
                  !.ret = newNode]

destroyNode(S, node) ==
    [S EXCEPT !.nodes[node] = NoNode, !.allocated = @ \ {node}]

RECURSIVE getLeftMostFrom(_, _)
getLeftMostFrom(h, currentNode) ==
    IF h[currentNode].leftChild # Null
    THEN getLeftMostFrom(h, h[currentNode].leftChild)
    ELSE currentNode

getLeftMostNode(h, root) == IF root = Null THEN Null ELSE getLeftMostFrom(h, root)

RECURSIVE getRightMostFrom(_, _)
getRightMostFrom(h, currentNode) ==
    IF h[currentNode].rightChild # Null
    THEN getRightMostFrom(h, h[currentNode].rightChild)
    ELSE currentNode

getRightMostNode(h, root) == IF root = Null THEN Null ELSE getRightMostFrom(h, root)

\* ---- rotations and splay ----

\* "if (p->leftChild == old) p->leftChild = new; else p->rightChild = new;"
replaceChild(h, p, old, new) ==
    IF h[p].leftChild = old
    THEN [h EXCEPT ![p].leftChild = new]
    ELSE [h EXCEPT ![p].rightChild = new]

\* setParentIfAny that leaves the parent pointer of the moved subtree alone.
setParentNever(h, n, p) == h

\* "if (n) n->parent = p;"
setParentIfAny(h, n, p) == IF n # Null THEN [h EXCEPT ![n].parent = p] ELSE h

leftRotation(h, node) ==
    LET parent == h[node].parent
        grandParent == h[parent].parent
        h1 == [h EXCEPT ![parent].rightChild = h[node].leftChild]
        h2 == setParentIfAny(h1, h1[node].leftChild, parent)
        h3 == [h2 EXCEPT ![node].leftChild = parent, ![node].parent = grandParent]
        h4 == IF grandParent # Null THEN replaceChild(h3, grandParent, parent, node) ELSE h3
    IN  [h4 EXCEPT ![parent].parent = node]

rightRotation(h, node) ==
    LET parent == h[node].parent
        grandParent == h[parent].parent
        h1 == [h EXCEPT ![parent].leftChild = h[node].rightChild]
        h2 == setParentIfAny(h1, h1[node].rightChild, parent)
        h3 == [h2 EXCEPT ![node].rightChild = parent, ![node].parent = grandParent]
        h4 == IF grandParent # Null THEN replaceChild(h3, grandParent, parent, node) ELSE h3
    IN  [h4 EXCEPT ![parent].parent = node]

zigStep(h, node) ==
    IF h[h[node].parent].leftChild = node
    THEN rightRotation(h, node)
    ELSE leftRotation(h, node)

\* The second rotation of a zig-zig step: of the child the rotated parent has
\* on the given side.
rotateLeftChildRight(h, parent) == rightRotation(h, h[parent].leftChild)

rotateRightChildLeft(h, parent) == leftRotation(h, h[parent].rightChild)

zigZigStep(h, node) ==
    IF h[h[node].parent].leftChild = node
    THEN rotateLeftChildRight(rightRotation(h, h[node].parent), h[node].parent)
    ELSE rotateRightChildLeft(leftRotation(h, h[node].parent), h[node].parent)

zigZagStep(h, node) ==
    IF h[h[node].parent].leftChild = node
    THEN leftRotation(rightRotation(h, node), node)
    ELSE rightRotation(leftRotation(h, node), node)

\* splayLoop that makes the step at the root and no step further down.
splayLoopZigOnly(h, root, node) ==
    IF node # root /\ h[node].parent = root
    THEN [nodes |-> zigStep(h, node), root_ |-> node]
    ELSE [nodes |-> h, root_ |-> root]

\* The while loop of splay: the heap and the root_ field after the loop.
RECURSIVE splayLoop(_, _, _)
RECURSIVE splayLoopAfterDouble(_, _, _)
splayLoop(h, root, node) ==
    IF node = root
    THEN [nodes |-> h, root_ |-> root]
    ELSE IF h[node].parent = root
         THEN splayLoop(zigStep(h, node), node, node)
         ELSE IF (h[h[h[node].parent].parent].leftChild = h[node].parent)
                    = (h[h[node].parent].leftChild = node)
              THEN splayLoopAfterDouble(zigZigStep(h, node), root, node)
              ELSE splayLoopAfterDouble(zigZagStep(h, node), root, node)

\* "if (!node->parent) root_ = node;" and the next turn of the loop.
splayLoopAfterDouble(h, root, node) ==
    splayLoop(h, IF h[node].parent = Null THEN node ELSE root, node)

\* The end of splay: the caches are recomputed and root_ is returned.
splayEnd(S, s) ==
    [S EXCEPT !.nodes = s.nodes,
              !.tree = [root_ |-> s.root_,
                        leftMostNode_ |-> getLeftMostNode(s.nodes, s.root_),
                        rightMostNode_ |-> getRightMostNode(s.nodes, s.root_),
                        numberOfNodes_ |-> S.tree.numberOfNodes_],
              !.ret = s.root_]

splay(S, node) == splayEnd(S, splayLoop(S.nodes, S.tree.root_, node))

\* ---- iterators ----

RECURSIVE climbFromRight(_, _)
climbFromRight(h, currentNode) ==
    IF h[currentNode].parent # Null /\ h[h[currentNode].parent].rightChild = currentNode
    THEN climbFromRight(h, h[currentNode].parent)
    ELSE currentNode

\* SplayTreeIterator::operator++ : the node_ field afterwards.
increment(h, node_) ==
    IF node_ # Null
    THEN IF h[node_].rightChild # Null
         THEN getLeftMostFrom(h, h[node_].rightChild)
         ELSE h[climbFromRight(h, node_)].parent
    ELSE node_

RECURSIVE climbFromLeft(_, _)
climbFromLeft(h, currentNode) ==
    IF h[currentNode].parent # Null /\ h[h[currentNode].parent].leftChild = currentNode
    THEN climbFromLeft(h, h[currentNode].parent)
    ELSE currentNode

\* decrement that takes the root itself for the last element.
decrementFromRoot(h, node_, root_) ==
    IF node_ = Null
    THEN root_
    ELSE IF h[node_].leftChild # Null
         THEN getRightMostFrom(h, h[node_].leftChild)
         ELSE h[climbFromLeft(h, node_)].parent

\* SplayTreeIterator::operator-- : the node_ field afterwards; from end()
\* the walk starts at the root_ the iterator was built with.
decrement(h, node_, root_) ==
    IF node_ = Null
    THEN getRightMostNode(h, root_)
    ELSE IF h[node_].leftChild # Null
         THEN getRightMostFrom(h, h[node_].leftChild)
         ELSE h[climbFromLeft(h, node_)].parent

\* SplayTreeIterator(node, root)
SplayTreeIterator(node, root) == [node_ |-> node, root_ |-> root]

\* begin() and end() of a tree
begin(T) == SplayTreeIterator(T.leftMostNode_, T.root_)

end(T) == SplayTreeIterator(Null, T.root_)

\* operator--(int), "const SplayTreeIterator old(*this); ++(*this); return old;":
\* the iterator afterwards.
postDecrement(h, it) == [it EXCEPT !.node_ = increment(h, it.node_)]

\* std::distance(first, last) over iterators: the number of ++ steps from
\* first to last.  fuel stops a walk that would never arrive.
RECURSIVE distanceFuel(_, _, _, _)
distanceFuel(h, first, lastIt, fuel) ==
    IF first = lastIt \/ fuel = 0
    THEN 0
    ELSE 1 + distanceFuel(h, increment(h, first), lastIt, fuel - 1)

distance(h, first, lastIt) == distanceFuel(h, first, lastIt, MaxNodes + 1)

\* ---- search helpers ----

RECURSIVE lowerBoundLoop(_, _, _, _)
lowerBoundLoop(h, currentNode, lowerBound, key) ==
    IF currentNode = Null
    THEN lowerBound
    ELSE IF ~comparator_(h[currentNode].value, key)
         THEN lowerBoundLoop(h, h[currentNode].leftChild, currentNode, key)
         ELSE lowerBoundLoop(h, h[currentNode].rightChild, lowerBound, key)

innerLowerBound(h, T, key) == lowerBoundLoop(h, T.root_, Null, key)

RECURSIVE upperBoundLoop(_, _, _, _)
upperBoundLoop(h, currentNode, upperBound, key) ==
    IF currentNode = Null
    THEN upperBound
    ELSE IF comparator_(key, h[currentNode].value)
         THEN upperBoundLoop(h, h[currentNode].leftChild, currentNode, key)
         ELSE upperBoundLoop(h, h[currentNode].rightChild, upperBound, key)

innerUpperBound(h, T, key) == upperBoundLoop(h, T.root_, Null, key)

RECURSIVE findPlaceUniqueLoop(_, _, _)
findPlaceUniqueLoop(h, currentNode, key) ==
    IF currentNode = Null
    THEN currentNode
    ELSE IF keysAreEqual(h[currentNode].value, key)
         THEN currentNode
         ELSE IF comparator_(key, h[currentNode].value)
              THEN IF h[currentNode].leftChild = Null
                   THEN currentNode
                   ELSE findPlaceUniqueLoop(h, h[currentNode].leftChild, key)
              ELSE IF h[currentNode].rightChild = Null
                   THEN currentNode
                   ELSE findPlaceUniqueLoop(h, h[currentNode].rightChild, key)

findPlaceToInsertUnique(h, T, key) == findPlaceUniqueLoop(h, T.root_, key)

RECURSIVE findPlaceEqualLoop(_, _, _)
findPlaceEqualLoop(h, currentNode, key) ==
    IF currentNode = Null
    THEN currentNode
    ELSE IF comparator_(key, h[currentNode].value)
         THEN IF h[currentNode].leftChild = Null
              THEN currentNode
              ELSE findPlaceEqualLoop(h, h[currentNode].leftChild, key)
         ELSE IF h[currentNode].rightChild = Null
              THEN currentNode
              ELSE findPlaceEqualLoop(h, h[currentNode].rightChild, key)

findPlaceToInsertEqual(h, T, key) == findPlaceEqualLoop(h, T.root_, key)

\* "placeToInsert && keysAreEqual(KeyOfValue()(placeToInsert->value), key)"
holdsKey(h, placeToInsert, key) ==
    placeToInsert # Null /\ keysAreEqual(h[placeToInsert].value, key)

innerFind(h, T, key) ==
    IF holdsKey(h, findPlaceToInsertUnique(h, T, key), key)
    THEN findPlaceToInsertUnique(h, T, key)
    ELSE Null

\* ---- insertion ----

\* attachNewNode with the two sides exchanged.
attachOnOtherSide(S, placeToInsert) ==
    LET newNode == S.ret
        goLeft == ~comparator_(S.nodes[newNode].value, S.nodes[placeToInsert].value)
    IN  IF goLeft
        THEN [S EXCEPT !.nodes[newNode].parent = placeToInsert,
                       !.nodes[placeToInsert].leftChild = newNode,
                       !.tree.leftMostNode_ = IF placeToInsert = @ THEN newNode ELSE @]
        ELSE [S EXCEPT !.nodes[newNode].parent = placeToInsert,
                       !.nodes[placeToInsert].rightChild = newNode,
                       !.tree.rightMostNode_ = IF placeToInsert = @ THEN newNode ELSE @]

\* innerInsert, the linking of newNode (ret) under placeToInsert and the
\* cache update that goes with it.
attachNewNode(S, placeToInsert) ==
    LET newNode == S.ret
        goLeft == comparator_(S.nodes[newNode].value, S.nodes[placeToInsert].value)
    IN  IF goLeft
        THEN [S EXCEPT !.nodes[newNode].parent = placeToInsert,
                       !.nodes[placeToInsert].leftChild = newNode,
                       !.tree.leftMostNode_ = IF placeToInsert = @ THEN newNode ELSE @]
        ELSE [S EXCEPT !.nodes[newNode].parent = placeToInsert,
                       !.nodes[placeToInsert].rightChild = newNode,
                       !.tree.rightMostNode_ = IF placeToInsert = @ THEN newNode ELSE @]

\* "++numberOfNodes_;"
countNewNode(S) == [S EXCEPT !.tree.numberOfNodes_ = @ + 1]

\* innerInsert once newNode (ret) exists.
placeNewNode(S, placeToInsert) ==
    IF placeToInsert = Null
    THEN countNewNode([S EXCEPT !.tree.root_ = S.ret,
                                !.tree.leftMostNode_ = S.ret,
                                !.tree.rightMostNode_ = S.ret])
    ELSE countNewNode(splay(attachNewNode(S, placeToInsert), S.ret))

\* innerInsert(value, placeToInsert, newNode): newNode = Null creates the node.
innerInsert(S, v, placeToInsert, newNode) ==
    placeNewNode(IF newNode = Null THEN createNode(S, v) ELSE [S EXCEPT !.ret = newNode],
                 placeToInsert)

\* insertUnique without the test for a node that holds the key already.
insertUniqueUnchecked(S, v) ==
    [innerInsert(S, v, findPlaceToInsertUnique(S.nodes, S.tree, v), Null)
        EXCEPT !.inserted = TRUE]

\* insertUnique(value): ret is the node of the returned iterator.
insertUnique(S, v) ==
    IF holdsKey(S.nodes, findPlaceToInsertUnique(S.nodes, S.tree, v), v)
    THEN [S EXCEPT !.ret = findPlaceToInsertUnique(S.nodes, S.tree, v), !.inserted = FALSE]
    ELSE [innerInsert(S, v, findPlaceToInsertUnique(S.nodes, S.tree, v), Null)
             EXCEPT !.inserted = TRUE]

insertEqual(S, v) ==
    innerInsert(S, v, findPlaceToInsertEqual(S.nodes, S.tree, v), Null)

\* emplaceBuilt returning the node it built when the key is there already.
emplaceBuiltReturningNew(S, newNode) ==
    LET key == S.nodes[newNode].value
        placeToInsert == findPlaceToInsertUnique(S.nodes, S.tree, key)
    IN  IF holdsKey(S.nodes, placeToInsert, key)
        THEN [S EXCEPT !.ret = newNode, !.inserted = FALSE]
        ELSE [innerInsert(S, key, placeToInsert, newNode) EXCEPT !.inserted = TRUE]

\* emplaceUnique once the node (newNode) has been built.
emplaceBuilt(S, newNode) ==
    LET key == S.nodes[newNode].value
        placeToInsert == findPlaceToInsertUnique(S.nodes, S.tree, key)
    IN  IF holdsKey(S.nodes, placeToInsert, key)
        THEN [destroyNode(S, newNode) EXCEPT !.ret = placeToInsert, !.inserted = FALSE]
        ELSE [innerInsert(S, key, placeToInsert, newNode) EXCEPT !.inserted = TRUE]

\* emplaceUnique(args...): the node is built first, then placed or destroyed.
emplaceUnique(S, v) == emplaceBuilt(createNode(S, v), createNode(S, v).ret)

\* ---- erasure ----

\* innerErase, two children: nodeToExchange takes over the left subtree of node.
exchangeLeftSubtree(h, node, nodeToExchange) ==
    LET a1 == [h EXCEPT ![nodeToExchange].leftChild = h[node].leftChild]
        a2 == [a1 EXCEPT ![a1[node].leftChild].parent = nodeToExchange]
    IN  [a2 EXCEPT ![node].leftChild = Null]

\* innerErase, nodeToExchange is a left child deeper in the right subtree.
exchangeWithDeeper(h, node, nodeToExchange) ==
    LET b1 == [h EXCEPT ![h[nodeToExchange].parent].leftChild = node]
        b2 == [b1 EXCEPT ![node].parent = b1[nodeToExchange].parent]
        b3 == [b2 EXCEPT ![nodeToExchange].rightChild = b2[node].rightChild,
                         ![node].rightChild = b2[nodeToExchange].rightChild]
        b4 == setParentIfAny(b3, b3[node].rightChild, node)
    IN  [b4 EXCEPT ![b4[nodeToExchange].rightChild].parent = nodeToExchange]

\* innerErase, nodeToExchange is the right child of node.
exchangeWithChild(h, node, nodeToExchange) ==
    LET c1 == [h EXCEPT ![node].rightChild = h[nodeToExchange].rightChild]
        c2 == setParentIfAny(c1, c1[node].rightChild, node)
    IN  [c2 EXCEPT ![nodeToExchange].rightChild = node, ![node].parent = nodeToExchange]

\* innerErase, nodeToExchange takes the place of node under nodeParent (or as root_).
exchangeParent(S, h, node, nodeToExchange, nodeParent) ==
    IF nodeParent # Null
    THEN [S EXCEPT !.nodes = [replaceChild(h, nodeParent, node, nodeToExchange)
                                 EXCEPT ![nodeToExchange].parent = nodeParent]]
    ELSE [S EXCEPT !.nodes = [h EXCEPT ![nodeToExchange].parent = nodeParent],
                   !.tree.root_ = nodeToExchange]

\* innerErase, the exchange once the left subtree has been handed over (heap a).
exchangeRest(S, a, node, nodeToExchange) ==
    exchangeParent(S,
                   IF a[a[nodeToExchange].parent].leftChild = nodeToExchange
                   THEN exchangeWithDeeper(a, node, nodeToExchange)
                   ELSE exchangeWithChild(a, node, nodeToExchange),
                   node, nodeToExchange, a[node].parent)

\* exchangeWithSuccessor that exchanges the values of the two nodes and
\* leaves the links alone.
exchangeValues(S, node) ==
    [S EXCEPT !.nodes[node].value = S.nodes[getLeftMostFrom(S.nodes, S.nodes[node].rightChild)].value,
              !.nodes[getLeftMostFrom(S.nodes, S.nodes[node].rightChild)].value = S.nodes[node].value]

\* innerErase, "if (node->leftChild && node->rightChild) { ... }"
exchangeWithSuccessor(S, node) ==
    exchangeRest(S,
                 exchangeLeftSubtree(S.nodes, node, getLeftMostFrom(S.nodes, S.nodes[node].rightChild)),
                 node,
                 getLeftMostFrom(S.nodes, S.nodes[node].rightChild))

\* innerErase, the unlinking of node, which has at most one child by now.
unlinkNode(S, node) ==
    LET h == S.nodes
        child == IF h[node].leftChild # Null THEN h[node].leftChild ELSE h[node].rightChild
        parent == h[node].parent
    IN  IF parent = Null
        THEN [S EXCEPT !.nodes = setParentIfAny(h, child, Null), !.tree.root_ = child]
        ELSE splay([S EXCEPT !.nodes = setParentIfAny(replaceChild(h, parent, node, child),
                                                      child, parent)],
                   parent)

\* eraseEnd without "--numberOfNodes_;".
eraseEndKeepingSize(S, node) ==
    destroyNode([S EXCEPT !.tree.leftMostNode_ = getLeftMostNode(S.nodes, S.tree.root_),
                          !.tree.rightMostNode_ = getRightMostNode(S.nodes, S.tree.root_)],
                node)

\* innerErase, the end: caches, destroyNode, --numberOfNodes_.
eraseEnd(S, node) ==
    destroyNode([S EXCEPT !.tree.leftMostNode_ = getLeftMostNode(S.nodes, S.tree.root_),
                          !.tree.rightMostNode_ = getRightMostNode(S.nodes, S.tree.root_),
                          !.tree.numberOfNodes_ = @ - 1],
                node)

innerErase(S, node) ==
    eraseEnd(unlinkNode(IF S.nodes[node].leftChild # Null /\ S.nodes[node].rightChild # Null
                        THEN exchangeWithSuccessor(S, node)
                        ELSE S,
                        node),
             node)

\* erase(position) that advances the iterator only after the node is gone.
eraseAtLate(S, position) ==
    [innerErase(S, position) EXCEPT !.ret = increment(innerErase(S, position).nodes, position)]

\* erase(position): ret is the node of the returned iterator.
eraseAt(S, position) ==
    [innerErase(S, position) EXCEPT !.ret = increment(S.nodes, position)]

\* erase(first, last)
RECURSIVE eraseRange(_, _, _)
RECURSIVE eraseRangeOn(_, _)
eraseRange(S, first, lastIt) ==
    IF first # lastIt
    THEN eraseRangeOn(eraseAt(S, first), lastIt)
    ELSE [S EXCEPT !.ret = first]

\* "first = erase(first);" and the next turn of the loop
eraseRangeOn(S, lastIt) == eraseRange(S, S.ret, lastIt)

\* "return oldSize - size();"
erasedCount(S, oldSize) == [S EXCEPT !.ret = oldSize - S.tree.numberOfNodes_]

\* erase(key) that stops after the first element of the range.
eraseKeyOnce(S, key) ==
    erasedCount(eraseRange(S,
                           innerLowerBound(S.nodes, S.tree, key),
                           IF innerLowerBound(S.nodes, S.tree, key) = innerUpperBound(S.nodes, S.tree, key)
                           THEN innerLowerBound(S.nodes, S.tree, key)
                           ELSE increment(S.nodes, innerLowerBound(S.nodes, S.tree, key))),
                S.tree.numberOfNodes_)

\* erase(key): ret is the number of elements removed.
eraseKey(S, key) ==
    erasedCount(eraseRange(S,
                           innerLowerBound(S.nodes, S.tree, key),
                           innerUpperBound(S.nodes, S.tree, key)),
                S.tree.numberOfNodes_)

\* find(key) that returns the node where it found it.
findInPlace(S, key) == [S EXCEPT !.ret = innerFind(S.nodes, S.tree, key)]

\* find(key), non-const: splays the node that was found.
find(S, key) ==
    IF innerFind(S.nodes, S.tree, key) # Null
    THEN splay(S, innerFind(S.nodes, S.tree, key))
    ELSE [S EXCEPT !.ret = Null]

\* const find that splays the node it found, as the non-const find does.
findConstSplaying(S, key) == find(S, key)

\* find(key) const: the node innerFind gives, without a splay.
findConst(S, key) == [S EXCEPT !.ret = innerFind(S.nodes, S.tree, key)]

\* lower_bound(key), const and non-const.
lower_bound(S, key) == [S EXCEPT !.ret = innerLowerBound(S.nodes, S.tree, key)]

\* upper_bound(key), const and non-const.
upper_bound(S, key) == [S EXCEPT !.ret = innerUpperBound(S.nodes, S.tree, key)]

\* equal_range(key): ret is the pair {lower_bound(key), upper_bound(key)}.
equal_range(S, key) == [S EXCEPT !.ret = <<lower_bound(S, key).ret, upper_bound(S, key).ret>>]

\* count as the set adapter counts: one for a key that is found.
countAsSet(h, T, key) == IF innerFind(h, T, key) # Null THEN 1 ELSE 0

\* count(key) of the tree: distance over equal_range(key).
count(h, T, key) == distance(h, innerLowerBound(h, T, key), innerUpperBound(h, T, key))

\* count(key) const: std::distance over the pair equal_range(key) gives.
countConst(S, key) ==
    [S EXCEPT !.ret = distance(S.nodes, equal_range(S, key).ret[1], equal_range(S, key).ret[2])]

\* ---- whole-tree storage operations ----

\* destroyLeaf that does not clear the link of the parent to the node.
destroyLeafKeepingLink(S, currentNode) == destroyNode(S, currentNode)

\* One turn of destroyTree at a node without children: the parent's link to
\* it is cleared and the node is released.
destroyLeaf(S, currentNode) ==
    destroyNode(IF S.nodes[currentNode].parent # Null
                THEN [S EXCEPT !.nodes = replaceChild(S.nodes, S.nodes[currentNode].parent,
                                                      currentNode, Null)]
                ELSE S,
                currentNode)

\* destroyTree(root): the iterative walk that releases every node below root.
RECURSIVE destroyTree(_, _)
destroyTree(S, currentNode) ==
    IF currentNode = Null
    THEN S
    ELSE IF S.nodes[currentNode].leftChild # Null
         THEN destroyTree(S, S.nodes[currentNode].leftChild)
         ELSE IF S.nodes[currentNode].rightChild # Null
              THEN destroyTree(S, S.nodes[currentNode].rightChild)
              ELSE destroyTree(destroyLeaf(S, currentNode), S.nodes[currentNode].parent)

clear(S) == [destroyTree(S, S.tree.root_) EXCEPT !.tree = EmptyTree]

\* copyTree(root), root not null: ret is the root of the copy.
RECURSIVE copyTree(_, _)
RECURSIVE copyLeft(_, _)
RECURSIVE copyRight(_, _)
copyTree(S, root) == copyRight(copyLeft(createNode(S, S.nodes[root].value), root), root)

\* "rootCopy->leftChild = copyTree(root->leftChild); rootCopy->leftChild->parent = rootCopy;"
linkLeftCopy(S, rootCopy) ==
    [S EXCEPT !.nodes[rootCopy].leftChild = S.ret, !.nodes[S.ret].parent = rootCopy, !.ret = rootCopy]

linkRightCopy(S, rootCopy) ==
    [S EXCEPT !.nodes[rootCopy].rightChild = S.ret, !.nodes[S.ret].parent = rootCopy, !.ret = rootCopy]

copyLeft(S, root) ==
    IF S.nodes[root].leftChild # Null
    THEN linkLeftCopy(copyTree(S, S.nodes[root].leftChild), S.ret)
    ELSE S

copyRight(S, root) ==
    IF S.nodes[root].rightChild # Null
    THEN linkRightCopy(copyTree(S, S.nodes[root].rightChild), S.ret)
    ELSE S

\* SplayTree(const SplayTree& rhs) for "auto temp = rhs;", rhs not empty: the
\* copy of the other tree takes its place as the argument of the call.
copyOfRhs(S, numberOfNodes) ==
    [S EXCEPT !.rhs = [root_ |-> S.ret,
                       leftMostNode_ |-> getLeftMostNode(S.nodes, S.ret),
                       rightMostNode_ |-> getRightMostNode(S.nodes, S.ret),
                       numberOfNodes_ |-> numberOfNodes]]

SplayTreeCopy(S) == copyOfRhs(copyTree(S, S.rhs.root_), S.rhs.numberOfNodes_)

\* SplayTree(const SplayTree& rhs) for "SplayTree other(tree);": the new
\* object is the other tree of the calls that follow.  copyTree reads
\* root->value and root->leftChild of its argument without a test, so the
\* copy of an empty tree goes through a null pointer twice.
SplayTreeCopyOfTree(S) ==
    IF S.tree.root_ = Null
    THEN [S EXCEPT !.outcome = "crash"]
    ELSE copyOfRhs(copyTree(S, S.tree.root_), S.tree.numberOfNodes_)

\* ---- allocation failure ----

\* createNode when nodeAllocator_.allocate(1) throws, or when the constructor
\* of the node throws and the catch block gives the memory back: no node
\* stays allocated and the exception leaves createNode.
createNodeThrows(S) == [S EXCEPT !.ret = Null, !.outcome = "error"]

\* insertUnique(value) with no memory left: when the key is new, innerInsert
\* is left at its first statement, createNode.
insertUniqueNoMemory(S, v) ==
    IF holdsKey(S.nodes, findPlaceToInsertUnique(S.nodes, S.tree, v), v)
    THEN insertUnique(S, v)
    ELSE createNodeThrows(S)

\* insertEqual(value) with no memory left.
insertEqualNoMemory(S, v) == createNodeThrows(S)

\* emplaceUnique(args...) with no memory left: createNode is its first
\* statement, before the try block.
emplaceUniqueNoMemory(S, v) == createNodeThrows(S)

\* The handler of copyTree, "destroyTree(rootCopy); throw;", in the call whose
\* createNode threw: rootCopy was never assigned.  When the slot holds null
\* (garbage = Null) destroyTree does nothing and the exception goes on; with
\* anything else destroyTree frees memory that is not a copy, and the process
\* is dead.
catchUnassigned(S, garbage) ==
    IF garbage = Null
    THEN createNodeThrows(S)
    ELSE [S EXCEPT !.ret = Null, !.outcome = "crash"]

\* The handler of copyTree in a call whose rootCopy was built.
catchCopy(S, rootCopy) ==
    IF S.outcome = "error"
    THEN [destroyTree(S, rootCopy) EXCEPT !.ret = Null]
    ELSE S

linkLeftOrCatch(S, rootCopy) ==
    IF S.outcome = "ok" THEN linkLeftCopy(S, rootCopy) ELSE catchCopy(S, rootCopy)

linkRightOrCatch(S, rootCopy) ==
    IF S.outcome = "ok" THEN linkRightCopy(S, rootCopy) ELSE catchCopy(S, rootCopy)

\* copyTree(root), root not null, with an allocator that gives out nodes only
\* while fewer than cap of them are allocated.
RECURSIVE copyTreeWithin(_, _, _, _)
RECURSIVE copyLeftWithin(_, _, _, _)
RECURSIVE copyRightWithin(_, _, _, _)
copyTreeWithin(S, root, cap, garbage) ==
    IF Cardinality(S.allocated) >= cap
    THEN catchUnassigned(S, garbage)
    ELSE copyRightWithin(copyLeftWithin(createNode(S, S.nodes[root].value), root, cap, garbage),
                         root, cap, garbage)

copyLeftWithin(S, root, cap, garbage) ==
    IF S.nodes[root].leftChild # Null
    THEN linkLeftOrCatch(copyTreeWithin(S, S.nodes[root].leftChild, cap, garbage), S.ret)
    ELSE S

copyRightWithin(S, root, cap, garbage) ==
    IF S.outcome = "ok" /\ S.nodes[root].rightChild # Null
    THEN linkRightOrCatch(copyTreeWithin(S, S.nodes[root].rightChild, cap, garbage), S.ret)
    ELSE S

\* The copy constructor around copyTreeWithin: an exception leaves no object
\* behind, a dead process leaves everything as it was.
copyOrNothing(S, R) ==
    IF R.outcome = "ok"
    THEN copyOfRhs(R, S.tree.numberOfNodes_)
    ELSE IF R.outcome = "crash" THEN [S EXCEPT !.outcome = "crash"] ELSE R

\* SplayTree(const SplayTree& rhs) for "SplayTree other(tree);", tree not
\* empty, with room for so many more nodes.
SplayTreeCopyWithin(S, room, garbage) ==
    copyOrNothing(S, copyTreeWithin(S, S.tree.root_, Cardinality(S.allocated) + room, garbage))

\* The private SplayTree(root, comparator, nodeAllocator): adopts the nodes below root.
SplayTreeFromRoot(h, root) ==
    [root_ |-> root,
     leftMostNode_ |-> getLeftMostNode(h, root),
     rightMostNode_ |-> getRightMostNode(h, root),
     numberOfNodes_ |-> distance(h, getLeftMostNode(h, root), Null)]

\* ---- split and merge ----

\* "leftRoot->parent = nullptr;" / "rightRoot->parent = nullptr;": with a null
\* pointer the store has no location to change (the call then counts one
\* store through null, see storesThroughNull).
storeParentNull(h, n) == IF n # Null THEN [h EXCEPT ![n].parent = Null] ELSE h

storesThroughNull(leftRoot, rightRoot) ==
    (IF leftRoot = Null THEN 1 ELSE 0) + (IF rightRoot = Null THEN 1 ELSE 0)

\* innerSplit, the return statement: the returned tree (rhs) adopts rightRoot.
\* ret is the number of stores the call made through a null pointer.
splitReturn(S, temp, leftRoot, rightRoot) ==
    [S EXCEPT !.tree = temp,
              !.rhs = SplayTreeFromRoot(S.nodes, rightRoot),
              !.ret = storesThroughNull(leftRoot, rightRoot)]

\* innerSplit, "*this = SplayTree(leftRoot, comparator_, nodeAllocator_);":
\* the move assignment clears the receiver and swaps it with the temporary.
splitAssign(S, leftRoot, rightRoot) ==
    splitReturn(clear(S), SplayTreeFromRoot(S.nodes, leftRoot), leftRoot, rightRoot)

\* innerSplit, the detaching of both subtrees of the root.
splitDetach(S, root, leftRoot, rightRoot) ==
    splitAssign([S EXCEPT !.nodes = storeParentNull(
                                        [storeParentNull([S.nodes EXCEPT ![root].leftChild = Null],
                                                         leftRoot)
                                            EXCEPT ![root].rightChild = Null],
                                        rightRoot)],
                leftRoot, rightRoot)

\* innerSplit once node has been splayed to the root.
splitAtRoot(S) ==
    splitDetach(S, S.tree.root_, S.nodes[S.tree.root_].leftChild, S.nodes[S.tree.root_].rightChild)

innerSplit(S, node) == splitAtRoot(splay(S, node))

\* A call that ends without having changed anything: an exception thrown
\* before any change ("error"), or the death of the process ("crash").
Untouched(S, outcome) == [S EXCEPT !.outcome = outcome]

\* What a call of split that got as far as innerSplit can do.  A store through
\* a null leftRoot / rightRoot kills the process or has no effect; a second
\* one in the same call kills it.
splitOutcomes(S, R) ==
    IF R.ret = 0
    THEN {R}
    ELSE IF R.ret = 1
         THEN {R, Untouched(S, "crash")}
         ELSE {Untouched(S, "crash")}

\* splitFinds without the comparison of the key found with the key asked for.
splitFindsSomeNode(h, node, key) == node # Null

\* Whether split(key) finds key: "if (!node || KeyOfValue()(node->value) != key) throw".
splitFinds(h, node, key) == node # Null /\ h[node].value = key

\* split(key): the set of things the call can do.
split(S, key) ==
    IF splitFinds(S.nodes, innerLowerBound(S.nodes, S.tree, key), key)
    THEN splitOutcomes(S, innerSplit(S, innerLowerBound(S.nodes, S.tree, key)))
    ELSE {Untouched(S, "error")}

\* mergeAtRoot without "numberOfNodes_ += rhs.numberOfNodes_;".
mergeAtRootKeepingSize(S) ==
    LET root == S.tree.root_
        h1 == [S.nodes EXCEPT ![root].rightChild = S.rhs.root_]
    IN  [S EXCEPT !.nodes = [h1 EXCEPT ![h1[root].rightChild].parent = root],
                  !.tree.rightMostNode_ = S.rhs.rightMostNode_,
                  !.rhs = EmptyTree]

\* mergeAtRoot without "rightMostNode_ = rhs.rightMostNode_;".
mergeAtRootKeepingRightMost(S) ==
    LET root == S.tree.root_
        h1 == [S.nodes EXCEPT ![root].rightChild = S.rhs.root_]
    IN  [S EXCEPT !.nodes = [h1 EXCEPT ![h1[root].rightChild].parent = root],
                  !.tree.numberOfNodes_ = @ + S.rhs.numberOfNodes_,
                  !.rhs = EmptyTree]

\* innerMerge after "splay(rightMostNode_);".
mergeAtRoot(S) ==
    LET root == S.tree.root_
        h1 == [S.nodes EXCEPT ![root].rightChild = S.rhs.root_]
    IN  [S EXCEPT !.nodes = [h1 EXCEPT ![h1[root].rightChild].parent = root],
                  !.tree.rightMostNode_ = S.rhs.rightMostNode_,
                  !.tree.numberOfNodes_ = @ + S.rhs.numberOfNodes_,
                  !.rhs = EmptyTree]

\* innerMerge(rhs), both trees not empty.
innerMerge(S) == mergeAtRoot(splay(S, S.tree.rightMostNode_))

\* With an empty receiver or argument, mergeUnique / mergeEqual read the key
\* of a null rightMostNode_ / leftMostNode_.  The read kills the process or
\* yields some value; with that value the separation test throws, or
\* innerMerge goes on to dereference a null pointer, which kills the process.
MergeNullRead(S) == {Untouched(S, "crash"), Untouched(S, "error")}

\* uniqueSeparated with the test of mergeEqual, which lets equal keys through.
uniqueSeparatedOrEqual(h, T, rhs) == ~comparator_(h[rhs.leftMostNode_].value, h[T.rightMostNode_].value)

\* The separation test of mergeUnique: true when the merge goes ahead.
uniqueSeparated(h, T, rhs) == comparator_(h[T.rightMostNode_].value, h[rhs.leftMostNode_].value)

\* equalSeparated that wants the keys strictly apart, as mergeUnique does.
equalSeparatedStrictly(h, T, rhs) == comparator_(h[T.rightMostNode_].value, h[rhs.leftMostNode_].value)

\* The separation test of mergeEqual: true when the merge goes ahead.
equalSeparated(h, T, rhs) == ~comparator_(h[rhs.leftMostNode_].value, h[T.rightMostNode_].value)

\* mergeUnique(SplayTree&& rhs): the set of things the call can do.
mergeUnique(S) ==
    IF S.tree.rightMostNode_ = Null \/ S.rhs.leftMostNode_ = Null
    THEN MergeNullRead(S)
    ELSE IF uniqueSeparated(S.nodes, S.tree, S.rhs)
         THEN {innerMerge(S)}
         ELSE {Untouched(S, "error")}

\* mergeEqual(SplayTree&& rhs): the set of things the call can do.
mergeEqual(S) ==
    IF S.tree.rightMostNode_ = Null \/ S.rhs.leftMostNode_ = Null
    THEN MergeNullRead(S)
    ELSE IF equalSeparated(S.nodes, S.tree, S.rhs)
         THEN {innerMerge(S)}
         ELSE {Untouched(S, "error")}

\* DropTemp that leaves the argument as the merge left its operand.
DropNothing(S, M) ==
    IF M.outcome = "crash"
    THEN Untouched(S, "crash")
    ELSE M

\* The end of a merge with a copy "temp" of rhs (result M of the call started
\* in S): the destructor of temp releases what temp still owns, and rhs is
\* the object it was.
DropTemp(S, M) ==
    IF M.outcome = "crash"
    THEN Untouched(S, "crash")
    ELSE [destroyTree(M, M.rhs.root_) EXCEPT !.rhs = S.rhs]

\* mergeUnique(const SplayTree& rhs): auto temp = rhs; mergeUnique(std::move(temp)).
\* copyTree reads the value and the children of a null root when rhs is empty.
mergeUniqueCopy(S) ==
    IF S.rhs.root_ = Null
    THEN {Untouched(S, "crash")}
    ELSE {DropTemp(S, M) : M \in mergeUnique(SplayTreeCopy(S))}

\* mergeEqual(const SplayTree& rhs)
mergeEqualCopy(S) ==
    IF S.rhs.root_ = Null
    THEN {Untouched(S, "crash")}
    ELSE {DropTemp(S, M) : M \in mergeEqual(SplayTreeCopy(S))}

\* ---- the program as a state machine ----

\* What the last call was and what came back: outcome is "ok", "error" (an
\* exception reached the caller) or "crash" (a null pointer was dereferenced
\* and the process died); node is the node of a returned iterator, flag a
\* returned bool, n a returned number.
Call(op, key, outcome, node, flag, n) ==
    [op |-> op, key |-> key, outcome |-> outcome, node |-> node, flag |-> flag, n |-> n]

\* The reference container is empty and nothing has been compared yet.
NoReference == [elems |-> <<>>, obs |-> <<0, FALSE>>]

InitWith(comparators) ==
    /\ nodes = [n \in Nodes |-> NoNode]
    /\ allocated = {}
    /\ tree = [t \in Trees |-> EmptyTree]
    /\ cmp \in comparators
    /\ call = Call("none", 0, "ok", Null, FALSE, 0)
    /\ stl = NoReference
    /\ held = [k \in StressKeys |-> Null]

\* Compare defaults to std::less<Key>.
Init == InitWith({"less"})

\* Any of the comparators the tests instantiate the tree with.
InitAnyCompare == InitWith({"less", "greater"})

Running == call.outcome # "crash"

\* The calls are made on tree object 1 with tree object 2 as the other tree
\* (the argument of a merge, the result of a split); Swap exchanges the two.
Here ==
    [nodes |-> nodes, allocated |-> allocated, tree |-> tree[1], rhs |-> tree[2],
     ret |-> Null, inserted |-> FALSE, outcome |-> "ok"]

\* The program state a call leaves behind.
Becomes(R) ==
    /\ nodes' = R.nodes
    /\ allocated' = R.allocated
    /\ tree' = [t \in Trees |-> IF t = 1 THEN R.tree ELSE R.rhs]

ReturnsIterator(op, k, R) ==
    /\ Becomes(R)
    /\ call' = Call(op, k, R.outcome, R.ret, R.inserted, 0)

ReturnsNumber(op, k, R) ==
    /\ Becomes(R)
    /\ call' = Call(op, k, R.outcome, Null, FALSE, R.ret)

ReturnsNothing(op, k, R) ==
    /\ Becomes(R)
    /\ call' = Call(op, k, R.outcome, Null, FALSE, 0)

\* The caller creates nodes only while that leaves at most MaxElements of
\* them alive; the arena (Nodes) has room beyond that for temporary copies.
RoomFor(n) == Cardinality(allocated) + n <= MaxElements

InsertUnique(k) ==
    /\ Running
    /\ innerFind(nodes, tree[1], k) # Null \/ RoomFor(1)
    /\ ReturnsIterator("insertUnique", k, insertUnique(Here, k))
    /\ UNCHANGED <<cmp, stl, held>>

EmplaceUnique(k) ==
    /\ Running
    /\ RoomFor(1)
    /\ ReturnsIterator("emplaceUnique", k, emplaceUnique(Here, k))
    /\ UNCHANGED <<cmp, stl, held>>

InsertEqual(k) ==
    /\ Running
    /\ RoomFor(1)
    /\ ReturnsIterator("insertEqual", k, insertEqual(Here, k))
    /\ UNCHANGED <<cmp, stl, held>>

EraseKey(k) ==
    /\ Running
    /\ ReturnsNumber("erase", k, eraseKey(Here, k))
    /\ UNCHANGED <<cmp, stl, held>>

Find(k) ==
    /\ Running
    /\ ReturnsIterator("find", k, find(Here, k))
    /\ UNCHANGED <<cmp, stl, held>>

\* clear(); call.n keeps the number of elements the tree held.
Clear ==
    /\ Running
    /\ Becomes(clear(Here))
    /\ call' = Call("clear", 0, clear(Here).outcome, Null, FALSE, tree[1].numberOfNodes_)
    /\ UNCHANGED <<cmp, stl, held>>

\* swap(rhs): the comparators and allocators of both objects are the same here.
Swap ==
    /\ Running
    /\ tree' = [t \in Trees |-> tree[3 - t]]
    /\ call' = Call("swap", 0, "ok", Null, FALSE, 0)
    /\ UNCHANGED <<nodes, allocated, cmp, stl, held>>

\* auto other = tree.split(k): the returned tree becomes object 2, which is a
\* new object.
Split(k) ==
    /\ Running
    /\ tree[2] = EmptyTree
    /\ \E R \in split(Here, k) : ReturnsNothing("split", k, R)
    /\ UNCHANGED <<cmp, stl, held>>

\* tree.mergeUnique(std::move(other))
MergeUnique ==
    /\ Running
    /\ \E R \in mergeUnique(Here) : ReturnsNothing("mergeUnique", 0, R)
    /\ UNCHANGED <<cmp, stl, held>>

\* tree.mergeEqual(std::move(other))
MergeEqual ==
    /\ Running
    /\ \E R \in mergeEqual(Here) : ReturnsNothing("mergeEqual", 0, R)
    /\ UNCHANGED <<cmp, stl, held>>

\* tree.mergeUnique(other); the arena has room for the temporary copy.
MergeUniqueCopy ==
    /\ Running
    /\ Cardinality(Nodes \ allocated) >= tree[2].numberOfNodes_
    /\ \E R \in mergeUniqueCopy(Here) : ReturnsNothing("mergeUniqueCopy", 0, R)
    /\ UNCHANGED <<cmp, stl, held>>

\* tree.mergeEqual(other); the arena has room for the temporary copy.
MergeEqualCopy ==
    /\ Running
    /\ Cardinality(Nodes \ allocated) >= tree[2].numberOfNodes_
    /\ \E R \in mergeEqualCopy(Here) : ReturnsNothing("mergeEqualCopy", 0, R)
    /\ UNCHANGED <<cmp, stl, held>>

Next ==
    \/ \E k \in Keys : InsertUnique(k)
    \/ \E k \in Keys : EmplaceUnique(k)
    \/ \E k \in Keys : InsertEqual(k)
    \/ \E k \in Keys : EraseKey(k)
    \/ \E k \in Keys : Find(k)
    \/ Clear
    \/ Swap
    \/ \E k \in Keys : Split(k)
    \/ MergeUnique
    \/ MergeEqual
    \/ RoomFor(tree[2].numberOfNodes_) /\ MergeUniqueCopy
    \/ RoomFor(tree[2].numberOfNodes_) /\ MergeEqualCopy

Spec == Init /\ [][Next]_vars

\* The calls that build, search, split and merge trees, for either comparator.
NextAnyCompare ==
    \/ \E k \in Keys : InsertUnique(k)
    \/ \E k \in Keys : InsertEqual(k)
    \/ \E k \in Keys : EraseKey(k)
    \/ \E k \in Keys : Find(k)
    \/ Swap
    \/ \E k \in Keys : Split(k)
    \/ MergeUnique
    \/ MergeEqual

SpecAnyCompare == InitAnyCompare /\ [][NextAnyCompare]_vars

\* Trees that are built, reshaped and merged with copies of one another, as
\* far as the arena goes.
NextCopy ==
    \/ \E k \in Keys : InsertUnique(k)
    \/ \E k \in Keys : Find(k)
    \/ Swap
    \/ MergeUniqueCopy
    \/ MergeEqualCopy

SpecCopy == Init /\ [][NextCopy]_vars

\* ---- observation of a tree through its public interface ----

\* The nodes met by ++ from begin() until end().
RECURSIVE TraverseFrom(_, _, _)
TraverseFrom(h, node_, fuel) ==
    IF node_ = Null \/ fuel = 0
    THEN <<>>
    ELSE <<node_>> \o TraverseFrom(h, increment(h, node_), fuel - 1)

Traverse(h, T) == TraverseFrom(h, T.leftMostNode_, MaxNodes + 1)

\* The keys *it of that traversal.
keysAt(h, path) == [i \in 1..Len(path) |-> h[path[i]].value]

KeysOf(h, T) == keysAt(h, Traverse(h, T))

\* The nodes reachable from a root through child links.
RECURSIVE Reachable(_, _, _)
Reachable(h, root, fuel) ==
    IF root = Null \/ fuel = 0
    THEN {}
    ELSE {root} \cup Reachable(h, h[root].leftChild, fuel - 1)
                \cup Reachable(h, h[root].rightChild, fuel - 1)

ReachableNodes(h, T) == Reachable(h, T.root_, MaxNodes + 1)

\* erase(iterator position) with a valid iterator that is not end(): the
\* argument of the call is recorded as the node the iterator refers to, and
\* the flag of the call tells whether innerErase took its first branch, for
\* a node with two children.
Erase(position) ==
    /\ Running
    /\ position \in ReachableNodes(nodes, tree[1])
    /\ Becomes(eraseAt(Here, position))
    /\ call' = Call("eraseAt", position, eraseAt(Here, position).outcome, eraseAt(Here, position).ret,
                    nodes[position].leftChild # Null /\ nodes[position].rightChild # Null, 0)
    /\ UNCHANGED <<cmp, stl, held>>

\* The calls that erase(iterator) is looked at with: a tree with equal keys,
\* reshaped by find, and erase at any of its elements.
NextErase ==
    \/ \E k \in Keys : InsertEqual(k)
    \/ \E k \in Keys : Find(k)
    \/ \E position \in Nodes : Erase(position)

SpecErase == Init /\ [][NextErase]_vars

\* splay(node), the private step behind find, insert, merge and split, on
\* any node of the tree; the call records the node as its argument.
Splay(node) ==
    /\ Running
    /\ node \in ReachableNodes(nodes, tree[1])
    /\ ReturnsIterator("splay", node, splay(Here, node))
    /\ UNCHANGED <<cmp, stl, held>>

\* The calls that splay is looked at with: trees of up to four elements with
\* equal keys, in the shapes inserts, erases and other splays leave.
NextSplay ==
    \/ \E k \in Keys : InsertEqual(k)
    \/ \E k \in Keys : EraseKey(k)
    \/ \E node \in Nodes : Splay(node)

SpecSplay == Init /\ [][NextSplay]_vars

\* ---- iterators kept by the caller ----

\* The caller's iterator variable (held) starts as end() of the empty tree.
InitIterator ==
    /\ nodes = [n \in Nodes |-> NoNode]
    /\ allocated = {}
    /\ tree = [t \in Trees |-> EmptyTree]
    /\ cmp = "less"
    /\ call = Call("none", 0, "ok", Null, FALSE, 0)
    /\ stl = NoReference
    /\ held = end(EmptyTree)

\* The iterator refers to an element of the tree, or is past the end.
Dereferenceable == held.node_ \in ReachableNodes(nodes, tree[1])

Usable == held.node_ = Null \/ Dereferenceable

\* The iterator the caller holds after an iterator call; the call records
\* the node of the iterator the call returned.
IteratorBecomes(op, it, returned, outcome) ==
    /\ held' = it
    /\ call' = Call(op, 0, outcome, returned, FALSE, 0)
    /\ UNCHANGED <<nodes, allocated, tree, cmp, stl>>

\* "it = tree.begin();"
Begin ==
    /\ Running
    /\ IteratorBecomes("begin", begin(tree[1]), tree[1].leftMostNode_, "ok")

\* "it = tree.end();"
End ==
    /\ Running
    /\ IteratorBecomes("end", end(tree[1]), Null, "ok")

\* "++it;"
Increment ==
    /\ Running
    /\ Usable
    /\ IteratorBecomes("++", [held EXCEPT !.node_ = increment(nodes, held.node_)],
                       increment(nodes, held.node_), "ok")

\* "--it;" with an iterator whose walk stays in live nodes.
Decrement ==
    /\ Running
    /\ Usable
    /\ held.node_ = Null => held.root_ = Null \/ held.root_ \in allocated
    /\ IteratorBecomes("--", [held EXCEPT !.node_ = decrement(nodes, held.node_, held.root_)],
                       decrement(nodes, held.node_, held.root_), "ok")

\* "--it;" with an end() iterator whose root_ has been released: operator--
\* reads currentNode->rightChild of released memory.  The process dies, or
\* the read yields some pointer and the walk ends at some node.
DecrementReleased ==
    /\ Running
    /\ held.node_ = Null
    /\ held.root_ # Null
    /\ held.root_ \notin allocated
    /\ \/ IteratorBecomes("--", held, Null, "crash")
       \/ \E n \in allocated \cup {held.root_} :
             IteratorBecomes("--", [held EXCEPT !.node_ = n], n, "ok")

\* "it--;"
PostDecrement ==
    /\ Running
    /\ Usable
    /\ IteratorBecomes("it--", postDecrement(nodes, held), held.node_, "ok")

\* "it = tree.erase(it);" with the iterator overload (the result keeps the
\* root_ of the argument) or the const_iterator overload (the result is
\* built with the root_ of the tree before innerErase).
EraseHeld(const) ==
    /\ Running
    /\ Dereferenceable
    /\ ReturnsIterator(IF const THEN "eraseConst" ELSE "eraseAt", held.node_, eraseAt(Here, held.node_))
    /\ held' = SplayTreeIterator(increment(nodes, held.node_),
                                 IF const THEN tree[1].root_ ELSE held.root_)
    /\ UNCHANGED <<cmp, stl>>

\* Calls on the tree while the caller keeps an iterator, and the iterator's
\* own steps.
NextIterator ==
    \/ \E k \in Keys : InsertUnique(k)
    \/ \E k \in Keys : Find(k)
    \/ \E const \in BOOLEAN : EraseHeld(const)
    \/ Begin
    \/ End
    \/ Increment
    \/ Decrement
    \/ DecrementReleased
    \/ PostDecrement

SpecIterator == InitIterator /\ [][NextIterator]_vars

\* ---- lookups that do not splay ----

FindConst(k) ==
    /\ Running
    /\ ReturnsIterator("findConst", k, findConst(Here, k))
    /\ UNCHANGED <<cmp, stl, held>>

LowerBound(k) ==
    /\ Running
    /\ ReturnsIterator("lower_bound", k, lower_bound(Here, k))
    /\ UNCHANGED <<cmp, stl, held>>

UpperBound(k) ==
    /\ Running
    /\ ReturnsIterator("upper_bound", k, upper_bound(Here, k))
    /\ UNCHANGED <<cmp, stl, held>>

\* equal_range(key); call.node and call.n keep the nodes of the two
\* iterators of the pair.
EqualRange(k) ==
    /\ Running
    /\ Becomes(equal_range(Here, k))
    /\ call' = Call("equal_range", k, equal_range(Here, k).outcome,
                    equal_range(Here, k).ret[1], FALSE, equal_range(Here, k).ret[2])
    /\ UNCHANGED <<cmp, stl, held>>

CountConst(k) ==
    /\ Running
    /\ ReturnsNumber("countConst", k, countConst(Here, k))
    /\ UNCHANGED <<cmp, stl, held>>

\* Lookups and iterator steps on a tree that insertEqual fills.
NextRead ==
    \/ \E k \in Keys : InsertEqual(k)
    \/ \E k \in Keys : Find(k)
    \/ \E k \in Keys : FindConst(k)
    \/ \E k \in Keys : LowerBound(k)
    \/ \E k \in Keys : UpperBound(k)
    \/ \E k \in Keys : EqualRange(k)
    \/ \E k \in Keys : CountConst(k)
    \/ Begin
    \/ Increment
    \/ Decrement

SpecRead == InitIterator /\ [][NextRead]_vars

\* "SplayTree other(tree);" while no other tree object is alive.
CopyConstruct ==
    /\ Running
    /\ tree[2] = EmptyTree
    /\ Cardinality(Nodes \ allocated) >= tree[1].numberOfNodes_
    /\ ReturnsNothing("copy", 0, SplayTreeCopyOfTree(Here))
    /\ UNCHANGED <<cmp, stl, held>>

\* The calls that copy construction is looked at with: trees of up to three
\* elements reshaped by find, the empty tree and the cleared tree included.
NextConstruct ==
    \/ \E k \in Keys : InsertUnique(k)
    \/ \E k \in Keys : Find(k)
    \/ Clear
    \/ CopyConstruct

SpecConstruct == Init /\ [][NextConstruct]_vars

\* What the unassigned rootCopy of copyTree may hold: null, or something else.
Garbage == {Null, 1}

InsertUniqueNoMemory(k) ==
    /\ Running
    /\ ReturnsIterator("insertUnique", k, insertUniqueNoMemory(Here, k))
    /\ UNCHANGED <<cmp, stl, held>>

InsertEqualNoMemory(k) ==
    /\ Running
    /\ ReturnsIterator("insertEqual", k, insertEqualNoMemory(Here, k))
    /\ UNCHANGED <<cmp, stl, held>>

EmplaceUniqueNoMemory(k) ==
    /\ Running
    /\ ReturnsIterator("emplaceUnique", k, emplaceUniqueNoMemory(Here, k))
    /\ UNCHANGED <<cmp, stl, held>>

\* "SplayTree other(tree);" of a tree that holds elements, with memory for
\* room more nodes; the call records room as the number it returns.
CopyConstructWithin(room, garbage) ==
    /\ Running
    /\ tree[2] = EmptyTree
    /\ tree[1].root_ # Null
    /\ room <= tree[1].numberOfNodes_
    /\ Cardinality(allocated) + room <= MaxNodes
    /\ Becomes(SplayTreeCopyWithin(Here, room, garbage))
    /\ call' = Call("copy", 0, SplayTreeCopyWithin(Here, room, garbage).outcome, Null, FALSE, room)
    /\ UNCHANGED <<cmp, stl, held>>

\* The calls that allocation failure is looked at with: trees built by
\* insertUnique and reshaped by find, then a call that runs out of memory.
NextNoMemory ==
    \/ \E k \in Keys : InsertUnique(k)
    \/ \E k \in Keys : Find(k)
    \/ \E k \in Keys : InsertUniqueNoMemory(k)
    \/ \E k \in Keys : InsertEqualNoMemory(k)
    \/ \E k \in Keys : EmplaceUniqueNoMemory(k)
    \/ \E room \in 0..MaxElements, garbage \in Garbage : CopyConstructWithin(room, garbage)

SpecNoMemory == Init /\ [][NextNoMemory]_vars

\* ---- the stress tests: set / multiset in lockstep with std::set / std::multiset ----

\* std::set and std::multiset over std::less: the elements in ascending order.
stlLowerBound(elems, key) == Cardinality({i \in 1..Len(elems) : elems[i] < key})

stlUpperBound(elems, key) == Cardinality({i \in 1..Len(elems) : elems[i] <= key})

stlCount(elems, key) == Cardinality({i \in 1..Len(elems) : elems[i] = key})

stlInsertAt(elems, pos, key) ==
    SubSeq(elems, 1, pos) \o <<key>> \o SubSeq(elems, pos + 1, Len(elems))

\* std::set::insert: the position of the returned iterator and the bool.
stlSetInsert(elems, key) ==
    IF stlCount(elems, key) > 0
    THEN [elems |-> elems, obs |-> <<stlLowerBound(elems, key), FALSE>>]
    ELSE [elems |-> stlInsertAt(elems, stlLowerBound(elems, key), key),
          obs |-> <<stlLowerBound(elems, key), TRUE>>]

\* std::multiset::insert: the new element goes after the elements equal to it.
stlMultisetInsert(elems, key) ==
    [elems |-> stlInsertAt(elems, stlUpperBound(elems, key), key),
     obs |-> <<stlUpperBound(elems, key), FALSE>>]

stlErase(elems, key) ==
    [elems |-> SelectSeq(elems, LAMBDA e : e # key),
     obs |-> <<stlCount(elems, key), FALSE>>]

\* What the test compares of the splay tree side: <<number, bool>>.
Observed == <<call.n, call.flag>>

\* An insert of the test: the position of the returned iterator is its
\* distance from begin(); the iterator of a new element is kept.
ReturnsPosition(op, k, R) ==
    /\ Becomes(R)
    /\ call' = Call(op, k, R.outcome, R.ret, R.inserted,
                    distance(R.nodes, R.tree.leftMostNode_, R.ret))
    /\ held' = IF R.inserted THEN [held EXCEPT ![k] = R.ret] ELSE held

\* An erase of the test: the iterators kept for erased elements are dropped.
ReturnsErased(op, k, R) ==
    /\ ReturnsNumber(op, k, R)
    /\ held' = [x \in StressKeys |-> IF held[x] \in R.allocated THEN held[x] ELSE Null]

\* set::count is "find(key) == end() ? 0 : 1", with the find that splays.
ReturnsFound(op, k, R) ==
    /\ Becomes(R)
    /\ call' = Call(op, k, R.outcome, Null, FALSE, IF R.ret = Null THEN 0 ELSE 1)

\* A bound of the test: the distance from begin() to the returned iterator.
ReturnsBound(op, k, it) ==
    call' = Call(op, k, "ok", it, FALSE, distance(nodes, tree[1].leftMostNode_, it))

\* case INSERT of stressTestWithSet: set::insert is insertUnique.
SetInsert(k) ==
    /\ Running
    /\ innerFind(nodes, tree[1], k) # Null \/ RoomFor(1)
    /\ ReturnsPosition("insert", k, insertUnique(Here, k))
    /\ stl' = stlSetInsert(stl.elems, k)
    /\ UNCHANGED cmp

\* set::emplace is emplaceUnique; std::set::emplace inserts like insert.
SetEmplace(k) ==
    /\ Running
    /\ RoomFor(1)
    /\ ReturnsPosition("emplace", k, emplaceUnique(Here, k))
    /\ stl' = stlSetInsert(stl.elems, k)
    /\ UNCHANGED cmp

\* case INSERT of stressTestWithMultiSet: multiset::insert is insertEqual.
MultisetInsert(k) ==
    /\ Running
    /\ RoomFor(1)
    /\ ReturnsPosition("insert", k, insertEqual(Here, k))
    /\ stl' = stlMultisetInsert(stl.elems, k)
    /\ UNCHANGED cmp

\* case ERASE: erase(key) of either adapter is the tree's erase(key).
StressErase(k) ==
    /\ Running
    /\ ReturnsErased("erase", k, eraseKey(Here, k))
    /\ stl' = stlErase(stl.elems, k)
    /\ UNCHANGED cmp

\* case COUNT of stressTestWithSet
SetCount(k) ==
    /\ Running
    /\ ReturnsFound("count", k, find(Here, k))
    /\ stl' = [stl EXCEPT !.obs = <<stlCount(stl.elems, k), FALSE>>]
    /\ UNCHANGED <<cmp, held>>

\* case COUNT of stressTestWithMultiSet: multiset::count is the tree's count.
MultisetCount(k) ==
    /\ Running
    /\ call' = Call("count", k, "ok", Null, FALSE, count(nodes, tree[1], k))
    /\ stl' = [stl EXCEPT !.obs = <<stlCount(stl.elems, k), FALSE>>]
    /\ UNCHANGED <<nodes, allocated, tree, cmp, held>>

\* case LOWER_BOUND
StressLowerBound(k) ==
    /\ Running
    /\ ReturnsBound("lower_bound", k, innerLowerBound(nodes, tree[1], k))
    /\ stl' = [stl EXCEPT !.obs = <<stlLowerBound(stl.elems, k), FALSE>>]
    /\ UNCHANGED <<nodes, allocated, tree, cmp, held>>

\* case UPPER_BOUND
StressUpperBound(k) ==
    /\ Running
    /\ ReturnsBound("upper_bound", k, innerUpperBound(nodes, tree[1], k))
    /\ stl' = [stl EXCEPT !.obs = <<stlUpperBound(stl.elems, k), FALSE>>]
    /\ UNCHANGED <<nodes, allocated, tree, cmp, held>>

\* case SIZE
StressSize ==
    /\ Running
    /\ call' = Call("size", 0, "ok", Null, FALSE, tree[1].numberOfNodes_)
    /\ stl' = [stl EXCEPT !.obs = <<Len(stl.elems), FALSE>>]
    /\ UNCHANGED <<nodes, allocated, tree, cmp, held>>

NextSet ==
    \/ \E k \in StressKeys : SetInsert(k)
    \/ \E k \in StressKeys : SetEmplace(k)
    \/ \E k \in StressKeys : StressErase(k)
    \/ \E k \in StressKeys : SetCount(k)
    \/ \E k \in StressKeys : StressLowerBound(k)
    \/ \E k \in StressKeys : StressUpperBound(k)
    \/ StressSize

SpecSet == Init /\ [][NextSet]_vars

NextMultiset ==
    \/ \E k \in StressKeys : MultisetInsert(k)
    \/ \E k \in StressKeys : StressErase(k)
    \/ \E k \in StressKeys : MultisetCount(k)
    \/ \E k \in StressKeys : StressLowerBound(k)
    \/ \E k \in StressKeys : StressUpperBound(k)
    \/ StressSize

SpecMultiset == Init /\ [][NextMultiset]_vars

\* ---- properties ----

\* ks is in non-decreasing order with respect to the comparator.
InOrder(ks) == \A i, j \in 1..Len(ks) : i < j => ~comparator_(ks[j], ks[i])

\* C1: after any sequence of insertUnique, insertEqual, erase, find, split and
\* merge calls, the traversal of either tree from begin() to end() yields keys
\* in non-decreasing order of the comparator: comparator(b, a) is false for
\* every a met before b (std::less and std::greater alike).
C1_TraversalInOrder == \A t \in Trees : InOrder(KeysOf(nodes, tree[t]))

\* A tree over std::greater of three elements, largest first, left by an erase.
C1_Witness ==
    /\ cmp = "greater"
    /\ call.op = "erase"
    /\ call.n = 1
    /\ Len(KeysOf(nodes, tree[1])) = 3
    /\ KeysOf(nodes, tree[1])[1] > KeysOf(nodes, tree[1])[3]

\* C2: in every reachable state of every tree, size() is the number of nodes
\* reachable from the root and the number of ++ steps from begin() to end().
C2_SizeIsNodeCount ==
    \A t \in Trees :
        /\ tree[t].numberOfNodes_ = Cardinality(ReachableNodes(nodes, tree[t]))
        /\ tree[t].numberOfNodes_ = Len(Traverse(nodes, tree[t]))
        /\ tree[t].numberOfNodes_ = distance(nodes, tree[t].leftMostNode_, Null)

\* Two trees that hold four nodes between them, left by a merge that went through.
C2_Witness ==
    /\ call.op = "mergeUnique"
    /\ call.outcome = "ok"
    /\ tree[1].numberOfNodes_ = 3
    /\ tree[2].numberOfNodes_ = 0
    /\ Cardinality(ReachableNodes(nodes, tree[1])) = 3

\* C3: in unique mode every call of insert, erase, count, lower_bound,
\* upper_bound and size made in lockstep on the splay tree set and on std::set
\* gives the same result on both sides: the same bool and the same distance
\* from begin() for insert, the same distance for the bounds, the same number
\* for erase, count and size.
C3_SetLockstep == Observed = stl.obs

\* An insert of a key that is already there, found at position 2 of 4.
C3_Witness ==
    /\ call.op = "insert"
    /\ call.flag = FALSE
    /\ call.n = 2
    /\ Len(stl.elems) = 4
    /\ stl.obs = <<2, FALSE>>

\* C4: in equal mode every call of insert, erase, count, lower_bound,
\* upper_bound and size made in lockstep on the splay tree multiset and on
\* std::multiset gives the same result on both sides; count(k) is the number
\* of k inserted and not erased, and the iterator returned by insert(k) is
\* directly after the elements that were equal to k already.
C4_MultisetLockstep ==
    /\ Observed = stl.obs
    /\ \A k \in StressKeys : count(nodes, tree[1], k) = stlCount(stl.elems, k)
    /\ call.op = "insert" =>
          /\ nodes[call.node].value = call.key
          /\ call.n = stlUpperBound(KeysOf(nodes, tree[1]), call.key) - 1

\* The third insert of a key, placed after the two elements equal to it.
C4_Witness ==
    /\ call.op = "insert"
    /\ count(nodes, tree[1], call.key) = 3
    /\ stlLowerBound(stl.elems, call.key) = 1
    /\ call.n = 3

\* C5: insertUnique(k) or emplaceUnique(k) of a key that is present reports
\* inserted = false, returns the iterator the first insertion of k returned,
\* and leaves the size and the stored keys as they were, with count(k) = 1.
C5_RepeatedInsertStep ==
    /\ call'.op \in {"insert", "emplace"}
    /\ innerFind(nodes, tree[1], call'.key) # Null
    => /\ call'.flag = FALSE
       /\ call'.node = held[call'.key]
       /\ held' = held
       /\ tree'[1].numberOfNodes_ = tree[1].numberOfNodes_
       /\ KeysOf(nodes', tree'[1]) = KeysOf(nodes, tree[1])
       /\ count(nodes', tree'[1], call'.key) = 1

\* C5 over every step: a repeated insertUnique / emplaceUnique reports false,
\* returns the first iterator and changes neither size nor keys.
C5_RepeatedInsert == [][C5_RepeatedInsertStep]_vars

\* An emplace of a key that is present came back with the kept iterator.
C5_Witness ==
    /\ call.op = "emplace"
    /\ call.flag = FALSE
    /\ call.node # Null
    /\ call.node = held[call.key]
    /\ tree[1].numberOfNodes_ = 3

\* The state S with the two tree objects exchanged.
Exchanged(S) == [S EXCEPT !.tree = S.rhs, !.rhs = S.tree]

\* The merge that ended as M gave a tree of exactly the keys ks.
Restores(M, ks) ==
    /\ M.outcome = "ok"
    /\ KeysOf(M.nodes, M.tree) = ks
    /\ M.tree.numberOfNodes_ = Len(ks)

\* A split that went through and gave two trees that are not empty.
SplitInTwo(c, T) == c.op = "split" /\ c.outcome = "ok" /\ T[1].root_ # Null /\ T[2].root_ # Null

\* C6: splitting a tree at a key that is present and merging the two
\* resulting trees back, one way round or the other, with mergeUnique or with
\* mergeEqual, gives a tree of the size and the key sequence the tree had
\* before the split, the pivot included.
C6_SplitThenMergeStep ==
    SplitInTwo(call', tree') =>
        \E S \in {Here', Exchanged(Here')} :
            \/ \A M \in mergeUnique(S) : Restores(M, KeysOf(nodes, tree[1]))
            \/ \A M \in mergeEqual(S) : Restores(M, KeysOf(nodes, tree[1]))

\* C6 over every step: a split followed by a merge restores the tree.
C6_SplitThenMerge == [][C6_SplitThenMergeStep]_vars

\* After a split in two, neither tree holds the key the tree was split at.
C6_Witness ==
    /\ SplitInTwo(call, tree)
    /\ \A t \in Trees : innerFind(nodes, tree[t], call.key) = Null

\* C7: split at a present key k returns a tree (object 2) of exactly the keys
\* less than k, and the receiver (object 1) keeps the pivot k and the keys
\* not less than k.
C7_SplitSides ==
    SplitInTwo(call, tree) =>
        /\ \A i \in 1..Len(KeysOf(nodes, tree[2])) : comparator_(KeysOf(nodes, tree[2])[i], call.key)
        /\ \A i \in 1..Len(KeysOf(nodes, tree[1])) : ~comparator_(KeysOf(nodes, tree[1])[i], call.key)
        /\ innerFind(nodes, tree[1], call.key) # Null

\* After a split in two, the receiver holds keys less than k only and the
\* returned tree keys not less than k only.
C7_Witness ==
    /\ SplitInTwo(call, tree)
    /\ \A i \in 1..Len(KeysOf(nodes, tree[1])) : comparator_(KeysOf(nodes, tree[1])[i], call.key)
    /\ \A i \in 1..Len(KeysOf(nodes, tree[2])) : ~comparator_(KeysOf(nodes, tree[2])[i], call.key)

\* C8: split(key) with a key that is not in the tree reports an error and
\* leaves the size, the contents and the shape of the tree as they were.
C8_SplitAbsentStep ==
    /\ call'.op = "split"
    /\ innerFind(nodes, tree[1], call'.key) = Null
    => /\ call'.outcome = "error"
       /\ nodes' = nodes
       /\ allocated' = allocated
       /\ tree' = tree

\* C8 over every step: split of an absent key reports an error and changes nothing.
C8_SplitAbsent == [][C8_SplitAbsentStep]_vars

\* A split was refused for a key that is absent although a larger key is there.
C8_Witness ==
    /\ call.op = "split"
    /\ call.outcome = "error"
    /\ tree[1].numberOfNodes_ = 3
    /\ innerFind(nodes, tree[1], call.key) = Null
    /\ innerLowerBound(nodes, tree[1], call.key) # Null

\* Every key of ka is less than every key of kb.
Separated(ka, kb) == \A i \in 1..Len(ka) : \A j \in 1..Len(kb) : comparator_(ka[i], kb[j])

\* A.mergeUnique(B) appended B to A and left B empty.
Appended ==
    /\ call'.outcome = "ok"
    /\ KeysOf(nodes', tree'[1]) = KeysOf(nodes, tree[1]) \o KeysOf(nodes, tree[2])
    /\ tree'[1].numberOfNodes_ = tree[1].numberOfNodes_ + tree[2].numberOfNodes_
    /\ tree'[2] = EmptyTree
    /\ ReachableNodes(nodes', tree'[1]) = ReachableNodes(nodes, tree[1]) \cup ReachableNodes(nodes, tree[2])

\* C9: when every key of B is greater than every key of A, A.mergeUnique(B)
\* makes the sequence of A its old sequence followed by that of B, with the
\* sizes added, and leaves B empty with size 0.
C9_MergeUniqueStep ==
    /\ call'.op = "mergeUnique"
    /\ Separated(KeysOf(nodes, tree[1]), KeysOf(nodes, tree[2]))
    => Appended

\* C9 over every step: mergeUnique of separated trees appends B to A and empties B.
C9_MergeUniqueAppends == [][C9_MergeUniqueStep]_vars

\* C9 for two trees that are not empty: the part of the claim the code keeps.
C9_MergeOfNonEmptyStep ==
    /\ call'.op = "mergeUnique"
    /\ tree[1].root_ # Null
    /\ tree[2].root_ # Null
    /\ Separated(KeysOf(nodes, tree[1]), KeysOf(nodes, tree[2]))
    => Appended

C9_MergeOfNonEmpty == [][C9_MergeOfNonEmptyStep]_vars

\* A mergeUnique ended in an exception or in the death of the process.
C9_Witness ==
    /\ call.op = "mergeUnique"
    /\ call.outcome # "ok"
    /\ tree[1].root_ = Null
    /\ tree[2].root_ # Null

\* C10: mergeUnique with the argument passed as an ordinary object leaves the
\* argument with the size and the key sequence it had, and the receiver gains
\* the elements of the argument.
C10_MergeCopyStep ==
    /\ call'.op = "mergeUniqueCopy"
    /\ call'.outcome # "crash"
    => /\ tree'[2].numberOfNodes_ = tree[2].numberOfNodes_
       /\ KeysOf(nodes', tree'[2]) = KeysOf(nodes, tree[2])
       /\ call'.outcome = "ok" =>
             /\ KeysOf(nodes', tree'[1]) = KeysOf(nodes, tree[1]) \o KeysOf(nodes, tree[2])
             /\ tree'[1].numberOfNodes_ = tree[1].numberOfNodes_ + tree[2].numberOfNodes_

\* C10 over every step: mergeUnique with a copied argument leaves the argument as it was.
C10_ArgumentPreserved == [][C10_MergeCopyStep]_vars

\* A merge with a copy went through: the argument still has its two
\* elements, and the receiver has them too.
C10_Witness ==
    /\ call.op = "mergeUniqueCopy"
    /\ call.outcome = "ok"
    /\ tree[2].numberOfNodes_ = 2
    /\ tree[1].numberOfNodes_ = 3
    /\ Len(KeysOf(nodes, tree[2])) = 2
    /\ ReachableNodes(nodes, tree[1]) \cap ReachableNodes(nodes, tree[2]) = {}

\* The last and the first key of a sequence of keys that is not empty.
LargestKey(ks) == ks[Len(ks)]

SmallestKey(ks) == ks[1]

\* Both tree objects hold elements.
BothHold == tree[1].root_ # Null /\ tree[2].root_ # Null

\* The call left the heap and both tree objects exactly as they were.
NothingChanged == nodes' = nodes /\ allocated' = allocated /\ tree' = tree

\* C11: mergeUnique (either overload) is rejected with an error whenever the
\* largest key of the receiver is not less than the smallest key of the
\* argument, equal keys included, and both trees are then as they were.
C11_MergeUniqueRejectedStep ==
    /\ call'.op \in {"mergeUnique", "mergeUniqueCopy"}
    /\ BothHold
    /\ ~comparator_(LargestKey(KeysOf(nodes, tree[1])), SmallestKey(KeysOf(nodes, tree[2])))
    => /\ call'.outcome = "error"
       /\ NothingChanged

\* C11 over every step: a mergeUnique of trees that are not separated is
\* rejected with an error and changes nothing.
C11_MergeUniqueRejected == [][C11_MergeUniqueRejectedStep]_vars

\* A mergeUnique was rejected for two trees whose largest and smallest key are equal.
C11_Witness ==
    /\ call.op = "mergeUnique"
    /\ call.outcome = "error"
    /\ BothHold
    /\ tree[1].numberOfNodes_ = 2
    /\ LargestKey(KeysOf(nodes, tree[1])) = SmallestKey(KeysOf(nodes, tree[2]))

\* C12: mergeEqual of two trees that hold elements is rejected only when the
\* smallest key of the argument is less than the largest key of the receiver;
\* otherwise, equal boundary keys included, the receiver ends with the sizes
\* added and a non-decreasing sequence made of every element of both trees.
C12_MergeEqualStep ==
    /\ call'.op = "mergeEqual"
    /\ BothHold
    => IF comparator_(SmallestKey(KeysOf(nodes, tree[2])), LargestKey(KeysOf(nodes, tree[1])))
       THEN call'.outcome = "error" /\ NothingChanged
       ELSE /\ Appended
            /\ InOrder(KeysOf(nodes', tree'[1]))

\* C12 over every step: mergeEqual accepts trees whose boundary keys are equal
\* and gives the receiver every element of both, in order.
C12_MergeEqualAccepts == [][C12_MergeEqualStep]_vars

\* A mergeEqual went through for trees whose boundary keys were equal: the
\* receiver now holds that key twice in a row.
C12_Witness ==
    /\ call.op = "mergeEqual"
    /\ call.outcome = "ok"
    /\ tree[1].numberOfNodes_ = 4
    /\ tree[2] = EmptyTree
    /\ \E i \in 1..3 : /\ KeysOf(nodes, tree[1])[i] = KeysOf(nodes, tree[1])[i + 1]
                       /\ nodes[tree[1].root_].leftChild # Null
                       /\ nodes[tree[1].root_].rightChild # Null
                       /\ Traverse(nodes, tree[1])[i] = tree[1].root_

\* The nodes of a traversal that do not hold a key equivalent to key.
Others(h, ns, key) == SelectSeq(ns, LAMBDA n : ~keysAreEqual(h[n].value, key))

\* C14: erase(key) removes every element whose key is equivalent to key and
\* no other element, and returns the number of elements it removed; for a key
\* that is not in the tree it returns 0 and the contents stay as they were.
C14_EraseKeyStep ==
    call'.op = "erase"
    => /\ call'.outcome = "ok"
       /\ Traverse(nodes', tree'[1]) = Others(nodes, Traverse(nodes, tree[1]), call'.key)
       /\ KeysOf(nodes', tree'[1]) = SelectSeq(KeysOf(nodes, tree[1]), LAMBDA k : ~keysAreEqual(k, call'.key))
       /\ call'.n = Len(Traverse(nodes, tree[1])) - Len(Others(nodes, Traverse(nodes, tree[1]), call'.key))
       /\ tree'[1].numberOfNodes_ = tree[1].numberOfNodes_ - call'.n
       /\ tree'[2] = tree[2]
       /\ KeysOf(nodes', tree'[2]) = KeysOf(nodes, tree[2])

\* C14 over every step: erase(key) removes exactly the elements equivalent to
\* key and returns how many they were.
C14_EraseKeyRemovesAll == [][C14_EraseKeyStep]_vars

\* erase(key) removed two equal elements and left others in the tree.
C14_Witness ==
    /\ call.op = "erase"
    /\ call.n = 2
    /\ tree[1].numberOfNodes_ = 2

\* erase(key) was called with a key the tree does not hold.
C14_WitnessAbsent ==
    /\ call.op = "erase"
    /\ call.n = 0
    /\ tree[1].numberOfNodes_ = 3

\* The place of a node in a traversal (0 when it is not there).
PlaceOf(ns, n) == IF \E i \in 1..Len(ns) : ns[i] = n THEN CHOOSE i \in 1..Len(ns) : ns[i] = n ELSE 0

\* C13: erase(iterator) with a valid iterator that is not end() removes the
\* element the iterator refers to and no other, makes size() one smaller, and
\* leaves all other elements, equal keys included, in their old order.
C13_EraseOneStep ==
    call'.op = "eraseAt"
    => /\ call'.outcome = "ok"
       /\ Traverse(nodes', tree'[1]) = SelectSeq(Traverse(nodes, tree[1]), LAMBDA n : n # call'.key)
       /\ Len(Traverse(nodes', tree'[1])) = Len(Traverse(nodes, tree[1])) - 1
       /\ tree'[1].numberOfNodes_ = tree[1].numberOfNodes_ - 1
       /\ allocated' = allocated \ {call'.key}
       /\ \A n \in allocated' : nodes'[n].value = nodes[n].value

\* C13 over every step: erase(iterator) removes exactly the element referred to.
C13_EraseOne == [][C13_EraseOneStep]_vars

\* erase(iterator) took one of four elements out of the middle and left a
\* tree that holds some key twice.
C13_Witness ==
    /\ call.op = "eraseAt"
    /\ tree[1].numberOfNodes_ = 3
    /\ \E i \in 1..2 : KeysOf(nodes, tree[1])[i] = KeysOf(nodes, tree[1])[i + 1]
    /\ nodes[tree[1].root_].leftChild # Null
    /\ nodes[tree[1].root_].rightChild # Null
    /\ call.node # Null

\* C15: erase(iterator) returns an iterator to the element that followed the
\* erased one in sorted order, end() when the erased element was the last,
\* and after the tree is relinked the iterator still refers to that element.
C15_EraseReturnsNextStep ==
    call'.op = "eraseAt"
    => LET before == Traverse(nodes, tree[1])
           after == Traverse(nodes', tree'[1])
           i == PlaceOf(before, call'.key)
       IN  /\ i # 0
           /\ call'.node = (IF i = Len(before) THEN Null ELSE before[i + 1])
           /\ i # Len(before) => /\ call'.node \in allocated'
                                 /\ after[i] = call'.node
                                 /\ nodes'[call'.node].value = nodes[before[i + 1]].value
                                 /\ increment(nodes', call'.node)
                                        = (IF i = Len(after) THEN Null ELSE after[i + 1])

\* C15 over every step: erase(iterator) returns the iterator of the next element.
C15_EraseReturnsNext == [][C15_EraseReturnsNextStep]_vars

\* erase(iterator) returned an iterator to an element that the erasure moved
\* into the place of the erased node.
C15_Witness ==
    /\ call.op = "eraseAt"
    /\ call.node # Null
    /\ call.node = tree[1].root_
    /\ tree[1].numberOfNodes_ = 3
    /\ nodes[call.node].leftChild # Null
    /\ nodes[call.node].rightChild # Null

\* erase(iterator) of the last element returned end().
C15_WitnessEnd ==
    /\ call.op = "eraseAt"
    /\ call.node = Null
    /\ tree[1].numberOfNodes_ = 3

\* The keys held by the nodes that hang under the root of a tree.
KeySetOf(h, T) == {h[n].value : n \in ReachableNodes(h, T)}

\* The cached end nodes of one tree object are the true ones.
CachesTrue(h, T) ==
    /\ T.leftMostNode_ = getLeftMostNode(h, T.root_)
    /\ T.rightMostNode_ = getRightMostNode(h, T.root_)
    /\ (T.root_ = Null) <=> (T.leftMostNode_ = Null)
    /\ (T.root_ = Null) <=> (T.rightMostNode_ = Null)
    /\ T.root_ # Null =>
          /\ T.leftMostNode_ \in ReachableNodes(h, T)
          /\ T.rightMostNode_ \in ReachableNodes(h, T)
          /\ h[T.leftMostNode_].leftChild = Null
          /\ h[T.rightMostNode_].rightChild = Null
          /\ \A k \in KeySetOf(h, T) : /\ ~comparator_(k, h[T.leftMostNode_].value)
                                       /\ ~comparator_(h[T.rightMostNode_].value, k)

\* C16: after any sequence of insert, erase, find, split and merge calls the
\* cached leftmost and rightmost node of a tree are its nodes with the
\* smallest and the largest key, and both are null exactly when it is empty.
C16_CachedEnds == \A t \in Trees : CachesTrue(nodes, tree[t])

\* A merge has just given the receiver a new rightmost node while its
\* leftmost node sits below the root.
C16_Witness ==
    /\ call.op \in {"mergeUnique", "mergeEqual"}
    /\ call.outcome = "ok"
    /\ tree[1].numberOfNodes_ = 4
    /\ tree[1].rightMostNode_ # tree[1].root_
    /\ nodes[tree[1].rightMostNode_].parent # tree[1].root_
    /\ tree[1].leftMostNode_ # tree[1].root_

\* The call that was just made found an element, or put a new one in.
FoundOrInserted ==
    \/ call'.op = "find" /\ call'.node # Null
    \/ call'.op = "insertUnique" /\ call'.flag
    \/ call'.op = "insertEqual"

\* C19: after a find(key) that finds the key, and after an insertUnique or
\* insertEqual that puts a new element in, the found or new node is the root
\* of the tree, has no parent, and is the node the returned iterator refers
\* to; a find of a key the tree holds does find it.
C19_SplayedToRootStep ==
    /\ FoundOrInserted
          => /\ call'.outcome = "ok"
             /\ call'.node # Null
             /\ call'.node = tree'[1].root_
             /\ nodes'[call'.node].parent = Null
             /\ keysAreEqual(nodes'[call'.node].value, call'.key)
             /\ call'.op = "find" => call'.node \in ReachableNodes(nodes, tree[1])
             /\ call'.op # "find" => call'.node \notin allocated
    /\ call'.op = "find" /\ call'.key \in KeySetOf(nodes, tree[1]) => call'.node # Null
    /\ call'.op = "insertUnique" /\ call'.key \notin KeySetOf(nodes, tree[1]) => call'.flag

\* C19 over every step: a found or newly inserted node ends up as the root.
C19_SplayedToRoot == [][C19_SplayedToRootStep]_vars

\* find brought a node with both subtrees to the root of a four-element tree.
C19_Witness ==
    /\ call.op = "find"
    /\ call.node # Null
    /\ call.node = tree[1].root_
    /\ tree[1].numberOfNodes_ = 4
    /\ nodes[call.node].leftChild # Null
    /\ nodes[call.node].rightChild # Null

\* insertUnique put a new node in, which now is the root with both subtrees.
C19_WitnessInsert ==
    /\ call.op = "insertUnique"
    /\ call.flag
    /\ call.node = tree[1].root_
    /\ nodes[call.node].leftChild # Null
    /\ nodes[call.node].rightChild # Null

\* C20: when insertUnique(key) finds an equivalent key in the tree, the node
\* that holds it is the root of the tree when (iterator, false) is returned.
C20_FailedInsertSplaysStep ==
    call'.op = "insertUnique" /\ ~call'.flag
    => /\ call'.node # Null
       /\ keysAreEqual(nodes'[call'.node].value, call'.key)
       /\ call'.node = tree'[1].root_

\* C20 over every step: a failed insertUnique leaves the existing element at the root.
C20_FailedInsertSplays == [][C20_FailedInsertSplaysStep]_vars

\* C20, what the code does: a failed insertUnique returns the node that
\* holds the key and leaves the tree as it was.
C20_FailedInsertKeepsStep ==
    call'.op = "insertUnique" /\ ~call'.flag
    => /\ call'.node # Null
       /\ keysAreEqual(nodes'[call'.node].value, call'.key)
       /\ NothingChanged

C20_FailedInsertKeeps == [][C20_FailedInsertKeepsStep]_vars

\* A failed insertUnique returned a node that is not the root.
C20_Witness ==
    /\ call.op = "insertUnique"
    /\ ~call.flag
    /\ call.node # Null
    /\ call.node # tree[1].root_
    /\ nodes[call.node].parent # Null

\* The new tree object is a copy of the tree it was made from: same size,
\* same sequence of keys, nodes of its own, and the source as it was.
CopiedFrom ==
    /\ call'.outcome = "ok"
    /\ tree'[2].numberOfNodes_ = tree[1].numberOfNodes_
    /\ Len(Traverse(nodes', tree'[2])) = tree[1].numberOfNodes_
    /\ KeysOf(nodes', tree'[2]) = KeysOf(nodes, tree[1])
    /\ ReachableNodes(nodes', tree'[2]) \cap allocated = {}
    /\ allocated' = allocated \cup ReachableNodes(nodes', tree'[2])
    /\ tree'[1] = tree[1]
    /\ \A n \in allocated : nodes'[n] = nodes[n]

\* C17: a tree made by the copy constructor has the size and the sequence of
\* keys of its source, whatever the source is, the empty tree included; it
\* shares no node with the source, and the source is as it was.
C17_CopyStep == call'.op = "copy" => CopiedFrom

\* C17 over every step: the copy constructor copies every source tree.
C17_CopyEqualsSource == [][C17_CopyStep]_vars

\* C17 for a source that holds elements: the part of the claim the code keeps.
C17_CopyOfNonEmptyStep == call'.op = "copy" /\ tree[1].root_ # Null => CopiedFrom

C17_CopyOfNonEmpty == [][C17_CopyOfNonEmptyStep]_vars

\* The copy constructor was given an empty tree and the process died.
C17_Witness ==
    /\ call.op = "copy"
    /\ call.outcome = "crash"
    /\ tree[1].root_ = Null
    /\ tree[1].numberOfNodes_ = 0

\* A tree of three elements was copied.
C17_WitnessCopied ==
    /\ call.op = "copy"
    /\ call.outcome = "ok"
    /\ tree[2].numberOfNodes_ = 3
    /\ nodes[tree[2].root_].leftChild # Null
    /\ nodes[tree[2].root_].rightChild # Null

\* The call that was just made ran out of memory.
OutOfMemory ==
    /\ call'.op \in {"insertUnique", "insertEqual", "emplaceUnique", "copy"}
    /\ call'.outcome # "ok"

\* C18: when the allocation of a node fails during insertUnique, insertEqual,
\* emplaceUnique or the copy of a tree, the caller sees the failure as an
\* exception, the heap and the trees are exactly as before the call (nothing
\* half-built is linked in, every node the call allocated is released), and
\* no node that was released or never assigned is touched on the way.
C18_AllocationFailureStep ==
    OutOfMemory => /\ call'.outcome = "error"
                   /\ NothingChanged

\* C18 over every step: a call that runs out of memory throws and leaves
\* everything as it was.
C18_AllocationFailure == [][C18_AllocationFailureStep]_vars

\* C18 without the handler of copyTree getting a pointer that was never
\* assigned: the part of the claim the code keeps.
C18_SurfacedFailureStep ==
    OutOfMemory /\ call'.outcome = "error" => NothingChanged

C18_SurfacedFailure == [][C18_SurfacedFailureStep]_vars

C18_InsertFailureStep ==
    OutOfMemory /\ call'.op # "copy" => call'.outcome = "error" /\ NothingChanged

C18_InsertFailure == [][C18_InsertFailureStep]_vars

\* The copy of a three-element tree ran out of memory after two nodes, and
\* the handler of copyTree went through a pointer that was never assigned.
C18_Witness ==
    /\ call.op = "copy"
    /\ call.outcome = "crash"
    /\ call.n = 2
    /\ tree[1].numberOfNodes_ = 3

\* The copy of a three-element tree ran out of memory after two nodes and
\* the exception reached the caller.
C18_WitnessSurfaced ==
    /\ call.op = "copy"
    /\ call.outcome = "error"
    /\ call.n = 2
    /\ tree[1].numberOfNodes_ = 3
    /\ nodes[tree[1].root_].leftChild # Null
    /\ nodes[tree[1].root_].rightChild # Null

\* The node reached from n by going up fuel parent links (Null once past a root).
RECURSIVE Ancestor(_, _, _)
Ancestor(h, n, fuel) ==
    IF n = Null \/ fuel = 0 THEN n ELSE Ancestor(h, h[n].parent, fuel - 1)

\* The links among the allocated nodes form binary trees.
LinksWellFormed ==
    \A n \in allocated :
        /\ nodes[n].parent # Null =>
              /\ nodes[n].parent \in allocated
              /\ (nodes[nodes[n].parent].leftChild = n) # (nodes[nodes[n].parent].rightChild = n)
        /\ nodes[n].leftChild # Null =>
              /\ nodes[n].leftChild \in allocated
              /\ nodes[nodes[n].leftChild].parent = n
        /\ nodes[n].rightChild # Null =>
              /\ nodes[n].rightChild \in allocated
              /\ nodes[nodes[n].rightChild].parent = n
        /\ Ancestor(nodes, n, MaxNodes) = Null

\* C22: in every reachable state the links form well-formed binary trees:
\* a root has no parent, every other node is exactly one of the two children
\* of its parent, every child points back to the node that lists it, there
\* is no cycle, and every node hangs under the root of exactly one tree.
C22_WellFormed ==
    /\ LinksWellFormed
    /\ \A t \in Trees : tree[t].root_ # Null =>
          /\ tree[t].root_ \in allocated
          /\ nodes[tree[t].root_].parent = Null
    /\ ReachableNodes(nodes, tree[1]) \cup ReachableNodes(nodes, tree[2]) = allocated
    /\ ReachableNodes(nodes, tree[1]) \cap ReachableNodes(nodes, tree[2]) = {}
    /\ \A t \in Trees : Cardinality(ReachableNodes(nodes, tree[t])) = Len(Traverse(nodes, tree[t]))

\* Two trees stand side by side after a split, one of them with two nodes.
C22_Witness ==
    /\ call.op = "split"
    /\ call.outcome = "ok"
    /\ tree[1].numberOfNodes_ = 1
    /\ Cardinality(ReachableNodes(nodes, tree[2])) = 2
    /\ Cardinality(allocated) = 3

\* The nodes under a root in sorted order, read off the child links alone.
RECURSIVE InOrderNodes(_, _, _)
InOrderNodes(h, root, fuel) ==
    IF root = Null \/ fuel = 0
    THEN <<>>
    ELSE InOrderNodes(h, h[root].leftChild, fuel - 1) \o <<root>>
            \o InOrderNodes(h, h[root].rightChild, fuel - 1)

Sorted(t) == InOrderNodes(nodes, tree[t].root_, MaxNodes + 1)

\* The element after / before place i of a sequence of nodes; Null past the ends.
After(ns, i) == IF i < Len(ns) THEN ns[i + 1] ELSE Null

Before(ns, i) == IF i > 1 THEN ns[i - 1] ELSE Null

\* ++ and -- walk the sorted order of the tree the iterator was taken from.
StepsFollowOrder ==
    /\ \A i \in 1..Len(Sorted(1)) :
          /\ increment(nodes, Sorted(1)[i]) = After(Sorted(1), i)
          /\ i > 1 => decrement(nodes, Sorted(1)[i], tree[1].root_) = Before(Sorted(1), i)
          /\ decrement(nodes, increment(nodes, Sorted(1)[i]), tree[1].root_) = Sorted(1)[i]
    /\ tree[1].root_ # Null => decrement(nodes, Null, tree[1].root_) = Sorted(1)[Len(Sorted(1))]
    /\ distance(nodes, begin(tree[1]).node_, end(tree[1]).node_) = tree[1].numberOfNodes_
    /\ Len(Sorted(1)) = tree[1].numberOfNodes_

\* C25: ++ moves from an element to the next one in sorted order and from
\* the last element to end(); -- moves from an element other than the first
\* to the one before it and from a fresh end() to the rightmost element; so
\* --(++it) == it for every iterator that is not end(), and size() steps of
\* ++ lead from begin() to end().
C25_IteratorStep ==
    /\ StepsFollowOrder
    /\ call'.op = "++" /\ Dereferenceable
          => held'.node_ = After(Sorted(1), PlaceOf(Sorted(1), held.node_))
    /\ call'.op = "--" /\ Dereferenceable /\ held.node_ # tree[1].leftMostNode_
          => held'.node_ = Before(Sorted(1), PlaceOf(Sorted(1), held.node_))
    /\ call'.op = "--" /\ held = end(tree[1]) /\ tree[1].root_ # Null
          => held'.node_ = tree[1].rightMostNode_ /\ call'.outcome = "ok"

C25_WitnessUp ==
    /\ call.op = "++"
    /\ held.node_ = tree[1].root_
    /\ tree[1].numberOfNodes_ = 3
    /\ nodes[held.node_].leftChild # Null
    /\ nodes[held.node_].rightChild # Null

\* The iterator is one whose -- is defined: it refers to an element, or it
\* is end() of the tree as it is now.
Current == Dereferenceable \/ held = end(tree[1])

\* C28: it-- moves the iterator to the position --it reaches, the element
\* before it in sorted order (the rightmost element from end()), and
\* returns the position the iterator had.
C28_PostDecrementStep ==
    call'.op = "it--" /\ Current
    => /\ call'.node = held.node_
       /\ held'.node_ = decrement(nodes, held.node_, held.root_)

\* C28 over every step: it-- goes where --it goes.
C28_PostDecrement == [][C28_PostDecrementStep]_vars

\* C28, what the code does: it-- returns the old position and moves the
\* iterator the way ++it does.
C28_PostDecrementAdvancesStep ==
    call'.op = "it--" /\ Current
    => /\ call'.node = held.node_
       /\ held'.node_ = (IF held.node_ = Null
                         THEN Null
                         ELSE After(Sorted(1), PlaceOf(Sorted(1), held.node_)))
       /\ held'.root_ = held.root_

C28_PostDecrementAdvances == [][C28_PostDecrementAdvancesStep]_vars

\* it-- on the middle one of three elements has left the iterator at the
\* last element.
C28_Witness ==
    /\ call.op = "it--"
    /\ tree[1].numberOfNodes_ = 3
    /\ call.node = Sorted(1)[2]
    /\ held.node_ = Sorted(1)[3]

\* C27: an end() iterator stays good across later calls on the tree: taken
\* before an insert, find or erase, or returned by erase for the last
\* element, its -- gives the rightmost element the tree has now, and visits
\* no node that has been released.
C27_EndDecrementStep ==
    call'.op = "--" /\ held.node_ = Null /\ tree[1].root_ # Null
    => /\ call'.outcome = "ok"
       /\ held.root_ \in allocated
       /\ held'.node_ = tree[1].rightMostNode_

\* C27 over every step: -- from any end() iterator of the tree reaches its
\* rightmost element.
C27_EndDecrement == [][C27_EndDecrementStep]_vars

\* -- from an end() iterator taken before later calls stopped at an element
\* that is not the rightmost one: the iterator's root_ is no longer the root.
C27_Witness ==
    /\ call.op = "--"
    /\ call.outcome = "ok"
    /\ held.root_ \in ReachableNodes(nodes, tree[1])
    /\ held.root_ # tree[1].root_
    /\ held.node_ \in ReachableNodes(nodes, tree[1])
    /\ held.node_ # tree[1].rightMostNode_
    /\ nodes[held.node_].rightChild = Null
    /\ held.node_ = getRightMostNode(nodes, held.root_)

\* -- from the end() iterator that erase returned went through the released root.
C27_WitnessReleased ==
    /\ call.op = "--"
    /\ call.outcome = "crash"
    /\ held.node_ = Null
    /\ held.root_ \notin allocated
    /\ tree[1].root_ # Null

\* The top of the tree after one rotation at node.
TopAfterRotation(node) == IF nodes[node].parent = tree[1].root_ THEN node ELSE tree[1].root_

\* One rotation at any node that has a parent keeps the sorted order.
RotationsKeepOrder ==
    \A n \in ReachableNodes(nodes, tree[1]) :
        nodes[n].parent # Null =>
            InOrderNodes(IF nodes[nodes[n].parent].rightChild = n
                         THEN leftRotation(nodes, n)
                         ELSE rightRotation(nodes, n),
                         TopAfterRotation(n), MaxNodes + 1) = Sorted(1)

\* C23: splay(node), for any node of the tree, ends with that node as the
\* root, keeps the nodes and their keys, and leaves the nodes in the sorted
\* order they had; a single left or right rotation keeps that order too.
C23_SplayStep ==
    /\ RotationsKeepOrder
    /\ call'.op = "splay"
          => /\ call'.outcome = "ok"
             /\ tree'[1].root_ = call'.key
             /\ call'.node = call'.key
             /\ nodes'[call'.key].parent = Null
             /\ InOrderNodes(nodes', tree'[1].root_, MaxNodes + 1) = Sorted(1)
             /\ allocated' = allocated
             /\ \A n \in allocated : nodes'[n].value = nodes[n].value
             /\ tree'[1].numberOfNodes_ = tree[1].numberOfNodes_

\* C23 over every step: splay brings the node to the root and keeps the order.
C23_SplayKeepsOrder == [][C23_SplayStep]_vars

\* splay has brought the deepest node of a chain of four to the root.
C23_Witness ==
    /\ call.op = "splay"
    /\ call.node = tree[1].root_
    /\ tree[1].numberOfNodes_ = 4
    /\ tree[1].leftMostNode_ = tree[1].root_
    /\ nodes[nodes[tree[1].root_].rightChild].leftChild # Null

TwoChildren(n) == nodes[n].leftChild # Null /\ nodes[n].rightChild # Null

\* The exchange innerErase makes for node n, which has two children: its
\* successor s gets the parent and the children n had (n itself as right
\* child when s was the right child of n), n is left without left child,
\* and no value moves.
ExchangeTakesPlace(n, s, E) ==
    /\ E.nodes[s].parent = nodes[n].parent
    /\ E.nodes[s].leftChild = nodes[n].leftChild
    /\ E.nodes[s].rightChild = (IF nodes[n].rightChild = s THEN n ELSE nodes[n].rightChild)
    /\ E.nodes[n].leftChild = Null
    /\ E.nodes[n].rightChild = nodes[s].rightChild
    /\ nodes[n].parent = Null => E.tree.root_ = s
    /\ \A m \in allocated : E.nodes[m].value = nodes[m].value
    /\ E.allocated = allocated

\* C24: erasing a node with two children puts its successor in its place by
\* changing links only: every node that stays, the successor included, keeps
\* its identity and its key, so an iterator to an element that stays refers
\* to the same key afterwards, and only the erased node is released.
C24_EraseRelinksStep ==
    /\ \A n \in ReachableNodes(nodes, tree[1]) :
          TwoChildren(n) => ExchangeTakesPlace(n, increment(nodes, n), exchangeWithSuccessor(Here, n))
    /\ call'.op = "eraseAt" /\ TwoChildren(call'.key)
          => /\ call'.outcome = "ok"
             /\ allocated' = allocated \ {call'.key}
             /\ nodes'[call'.key] = NoNode
             /\ \A m \in allocated' : /\ nodes'[m].value = nodes[m].value
                                      /\ m \in ReachableNodes(nodes', tree'[1])
             /\ InOrderNodes(nodes', tree'[1].root_, MaxNodes + 1)
                   = SelectSeq(Sorted(1), LAMBDA m : m # call'.key)

\* C24 over every step: the erase of a node with two children moves links, not keys.
C24_EraseRelinks == [][C24_EraseRelinksStep]_vars

\* erase(iterator) took out a node with two children whose successor was
\* not its right child; three elements stay.
C24_Witness ==
    /\ call.op = "eraseAt"
    /\ call.node # Null
    /\ tree[1].numberOfNodes_ = 3
    /\ call.flag
    /\ call.key \notin allocated
    /\ call.node # tree[1].root_

\* The walk of destroyTree from currentNode in heap state S, followed turn
\* by turn: every node the loop reads (the current node, and the parent
\* whose link it clears) is allocated when it is read, so that none is read
\* after its release and none is released twice, and the loop ends within
\* fuel turns.
RECURSIVE WalkIsSafe(_, _, _)
WalkIsSafe(S, currentNode, fuel) ==
    IF currentNode = Null
    THEN TRUE
    ELSE /\ fuel > 0
         /\ currentNode \in S.allocated
         /\ IF S.nodes[currentNode].leftChild # Null
            THEN WalkIsSafe(S, S.nodes[currentNode].leftChild, fuel - 1)
            ELSE IF S.nodes[currentNode].rightChild # Null
                 THEN WalkIsSafe(S, S.nodes[currentNode].rightChild, fuel - 1)
                 ELSE /\ S.nodes[currentNode].parent # Null => S.nodes[currentNode].parent \in S.allocated
                      /\ WalkIsSafe(destroyLeaf(S, currentNode), S.nodes[currentNode].parent, fuel - 1)

\* C26: destroyTree, as clear() runs it, ends for every shape of tree, a
\* chain included, releases every node of the tree, each once, and reads no
\* node after its release; the other tree is not touched.
C26_DestroyStep ==
    call'.op = "clear"
    => /\ call'.outcome = "ok"
       /\ allocated' = allocated \ ReachableNodes(nodes, tree[1])
       /\ Cardinality(allocated') = Cardinality(allocated) - tree[1].numberOfNodes_
       /\ \A n \in Nodes \ allocated' : nodes'[n] = NoNode
       /\ \A n \in allocated' : nodes'[n] = nodes[n]
       /\ tree' = [tree EXCEPT ![1] = EmptyTree]
       /\ WalkIsSafe(Here, tree[1].root_, 2 * MaxNodes)

\* C26 over every step: clear() releases exactly the nodes of its tree.
C26_DestroyReleasesAll == [][C26_DestroyStep]_vars

\* clear() has just released a tree of three nodes while the other tree
\* keeps its node.
C26_Witness ==
    /\ call.op = "clear"
    /\ call.n = 3
    /\ tree[1] = EmptyTree
    /\ tree[2].numberOfNodes_ = 1
    /\ allocated = {tree[2].root_}

\* The calls that only look at the tree.
ReadOnlyOps == {"findConst", "lower_bound", "upper_bound", "equal_range", "countConst", "++", "--"}

\* C21: the const find, lower_bound, upper_bound, equal_range, count and
\* every iterator ++ / -- step leave the nodes, their links, the allocation
\* and both tree objects (root, size, cached leftmost and rightmost node)
\* exactly as they were; a non-const find of a key the tree does not hold
\* returns end() and leaves them as they were too.
C21_ReadOnlyStep ==
    /\ call'.op \in ReadOnlyOps => NothingChanged
    /\ call'.op = "findConst" /\ call'.key \in KeySetOf(nodes, tree[1])
       => call'.node \in ReachableNodes(nodes, tree[1]) /\ nodes[call'.node].value = call'.key
    /\ call'.op = "find" /\ call'.key \notin KeySetOf(nodes, tree[1])
       => call'.node = Null /\ NothingChanged

C21_ReadOnly == [][C21_ReadOnlyStep]_vars

\* The const find has just found a key two levels below the root, and left
\* it there.
C21_Witness ==
    /\ call.op = "findConst"
    /\ call.node # Null
    /\ nodes[call.node].parent # Null
    /\ nodes[call.node].parent # tree[1].root_

\* The non-const find has just missed a key in a tree of three elements.
C21_WitnessAbsent ==
    /\ call.op = "find"
    /\ call.node = Null
    /\ tree[1].numberOfNodes_ = 3

\* count() has just counted three equal elements.
C21_WitnessCount == call.op = "countConst" /\ call.n = 3

\* ++ has just moved the caller's iterator up to the root.
C21_WitnessStep == call.op = "++" /\ call.node # Null /\ call.node = tree[1].root_ /\ tree[1].numberOfNodes_ >= 3

\* A merge with the argument moved in, and an operand that is empty.
MergeWithEmpty(c, T) == c.op \in {"mergeUnique", "mergeEqual"} /\ (T[1].root_ = Null \/ T[2].root_ = Null)

\* C29: mergeUnique and mergeEqual with an empty receiver or an empty
\* argument complete, and afterwards the receiver holds the elements of both
\* trees with the sizes added, the argument being empty.
C29_MergeWithEmptyStep ==
    MergeWithEmpty(call', tree) =>
        /\ call'.outcome = "ok"
        /\ KeysOf(nodes', tree'[1]) = KeysOf(nodes, tree[1]) \o KeysOf(nodes, tree[2])
        /\ tree'[1].numberOfNodes_ = tree[1].numberOfNodes_ + tree[2].numberOfNodes_
        /\ tree'[2].numberOfNodes_ = 0

C29_MergeWithEmpty == [][C29_MergeWithEmptyStep]_vars

\* What the code does instead: no merge with an empty operand completes, and
\* both trees are left as they were.
C29_MergeWithEmptyFailsStep ==
    MergeWithEmpty(call', tree) => call'.outcome \in {"crash", "error"} /\ NothingChanged

C29_MergeWithEmptyFails == [][C29_MergeWithEmptyFailsStep]_vars

\* A mergeEqual of a tree of two elements with an empty argument has killed
\* the process.
C29_Witness ==
    /\ call.op = "mergeEqual"
    /\ call.outcome = "crash"
    /\ tree[1].numberOfNodes_ = 2
    /\ tree[2].root_ = Null

\* The node split(key) splits at.
Pivot(key) == innerLowerBound(nodes, tree[1], key)

\* split(key) finds its pivot at the first or at the last place of the
\* sorted order, so that the pivot has no left or no right subtree once it
\* has been splayed to the root.
PivotAtAnEnd(key) ==
    /\ splitFinds(nodes, Pivot(key), key)
    /\ Pivot(key) \in {Sorted(1)[1], Sorted(1)[Len(Sorted(1))]}

\* The keys of the tree in order, without the one of the pivot.
KeysBesidePivot(key) == keysAt(nodes, SelectSeq(Sorted(1), LAMBDA n : n # Pivot(key)))

\* The two trees of a split: one is empty, the other holds the elements
\* beside the pivot.
OneEmptyOneRest(key) ==
    /\ tree'[1].root_ = Null \/ tree'[2].root_ = Null
    /\ KeysOf(nodes', tree'[1]) \o KeysOf(nodes', tree'[2]) = KeysBesidePivot(key)
    /\ tree'[1].numberOfNodes_ + tree'[2].numberOfNodes_ = tree[1].numberOfNodes_ - 1

\* C30: split at the smallest or at the largest element of the tree, and
\* split of a tree of one element, complete and give one empty tree and one
\* tree with the remaining elements.
C30_SplitAtEndStep ==
    call'.op = "split" /\ PivotAtAnEnd(call'.key)
    => call'.outcome = "ok" /\ OneEmptyOneRest(call'.key)

C30_SplitAtEnd == [][C30_SplitAtEndStep]_vars

\* What the code keeps: a split at an end that the process survives gives
\* one empty tree and one with the remaining elements, and a tree of one
\* element is never split.
C30_SplitAtEndSurvivedStep ==
    call'.op = "split" /\ PivotAtAnEnd(call'.key)
    => /\ call'.outcome \in {"ok", "crash"}
       /\ call'.outcome = "ok" => OneEmptyOneRest(call'.key) /\ tree[1].numberOfNodes_ > 1
       /\ call'.outcome = "crash" => NothingChanged

C30_SplitAtEndSurvived == [][C30_SplitAtEndSurvivedStep]_vars

\* The split of a tree of one element has killed the process.
C30_Witness ==
    /\ call.op = "split"
    /\ call.outcome = "crash"
    /\ tree[1].numberOfNodes_ = 1
    /\ nodes[tree[1].root_].value = call.key

\* A split at the largest of three elements that went through.
C30_WitnessSurvived ==
    /\ call.op = "split"
    /\ call.outcome = "ok"
    /\ tree[1].numberOfNodes_ = 2
    /\ tree[2] = EmptyTree
    /\ \A i \in 1..Len(KeysOf(nodes, tree[1])) : comparator_(KeysOf(nodes, tree[1])[i], call.key)

====
